---------------------------- MODULE Spec2Model ----------------------------
(***************************************************************************)
(* Chef Compadre: the conversation endpoint of                             *)
(* api/conversation_consolidated.js as a state machine.                    *)
(*                                                                         *)
(* JavaScript strings are TLA+ strings (Len, SubSeq and \o act on them).   *)
(* A JavaScript value that may be something other than a string (the       *)
(* request's text, a reply, a stored memory_content) is a tagged record:   *)
(* [t |-> "string", s |-> ...], [t |-> "number", n |-> ...],               *)
(* [t |-> "undefined"], [t |-> "null"].                                    *)
(*                                                                         *)
(* Two source characters are outside the module's character set and are    *)
(* written as ASCII stand-ins: the open-book emoji of line 1070 is         *)
(* "{book}" and the e-acute of line 1083 is "e'" ("saute'").  The          *)
(* markdown fence of line 427 (three backquotes) is written "'''".         *)
(***************************************************************************)
EXTENDS Integers, Sequences, FiniteSets, TLC

(***************************************************************************)
(* JavaScript values and string primitives                                 *)
(***************************************************************************)
JsStr(s) == [t |-> "string", s |-> s]
JsNum(n) == [t |-> "number", n |-> n]
JsUndefined == [t |-> "undefined"]
JsNull == [t |-> "null"]

\* typeof v === 'string'
IsString(v) == v.t = "string"

\* JavaScript truthiness of a value.
Truthy(v) ==
  CASE v.t = "string" -> v.s # ""
    [] v.t = "number" -> v.n # 0
    [] v.t = "object" -> TRUE
    [] OTHER -> FALSE

\* `${v}` inside a template literal.
Template(v) ==
  CASE v.t = "string" -> v.s
    [] v.t = "number" -> ToString(v.n)
    [] v.t = "null" -> "null"
    [] OTHER -> "undefined"

UpperCase == "ABCDEFGHIJKLMNOPQRSTUVWXYZ"
LowerCase == "abcdefghijklmnopqrstuvwxyz"

\* One character of String.prototype.toLowerCase.
LowerOf ==
  [c \in {SubSeq(UpperCase, k, k) : k \in 1..Len(UpperCase)} |->
     LET k == CHOOSE k \in 1..Len(UpperCase) : SubSeq(UpperCase, k, k) = c
     IN SubSeq(LowerCase, k, k)]
LowerChar(c) == IF c \in DOMAIN LowerOf THEN LowerOf[c] ELSE c

\* String.prototype.toLowerCase, halving the string so that the evaluation
\* depth stays logarithmic in its length.
RECURSIVE toLowerCase(_)
toLowerCase(s) ==
  IF Len(s) = 0 THEN ""
  ELSE IF Len(s) = 1 THEN LowerChar(s)
  ELSE LET h == Len(s) \div 2
       IN toLowerCase(SubSeq(s, 1, h)) \o toLowerCase(SubSeq(s, h + 1, Len(s)))

\* s.substring(i) with a 1-based i.
From(s, i) == SubSeq(s, i, Len(s))

\* The p-long piece of s at the 1-based index i equals p.
OccursAt(s, p, i) == i + Len(p) - 1 <= Len(s) /\ SubSeq(s, i, i + Len(p) - 1) = p

\* s.includes(p)
includes(s, p) == \E i \in 1..(Len(s) + 1) : OccursAt(s, p, i)

\* s.startsWith(p)
startsWith(s, p) == OccursAt(s, p, 1)

\* s.indexOf(p), 1-based; 0 when p does not occur.
indexOf(s, p) ==
  IF includes(s, p)
  THEN CHOOSE i \in 1..(Len(s) + 1) :
         OccursAt(s, p, i) /\ \A j \in 1..(i - 1) : ~OccursAt(s, p, j)
  ELSE 0

\* s.split(p).pop() for a non-empty p: split scans left to right, so the last
\* piece is what follows the last match of that scan.
RECURSIVE splitPop(_, _)
splitPop(s, p) ==
  IF includes(s, p) THEN splitPop(From(s, indexOf(s, p) + Len(p)), p) ELSE s

\* s.split(/[\n,.]/)[0]: the piece before the first separator.
IsSeparator(c) == c \in {"\n", ",", "."}
splitFirst(s) ==
  IF \E i \in 1..Len(s) : IsSeparator(SubSeq(s, i, i))
  THEN LET i == CHOOSE i \in 1..Len(s) :
                  /\ IsSeparator(SubSeq(s, i, i))
                  /\ \A j \in 1..(i - 1) : ~IsSeparator(SubSeq(s, j, j))
       IN SubSeq(s, 1, i - 1)
  ELSE s

WhiteSpace == {" ", "\n", "\t", "\r"}

RECURSIVE trimStart(_)
trimStart(s) ==
  IF s # "" /\ SubSeq(s, 1, 1) \in WhiteSpace THEN trimStart(From(s, 2)) ELSE s

RECURSIVE trimEnd(_)
trimEnd(s) ==
  IF s # "" /\ SubSeq(s, Len(s), Len(s)) \in WhiteSpace
  THEN trimEnd(SubSeq(s, 1, Len(s) - 1)) ELSE s

\* A trim that removes nothing.
trimNothing(s) == s

\* s.trim()
trim(s) == trimEnd(trimStart(s))

\* s.substring(0, n)
substring(s, n) == SubSeq(s, 1, IF Len(s) < n THEN Len(s) ELSE n)

(***************************************************************************)
(* Safety guardrails (lines 24-88)                                         *)
(*                                                                         *)
(* A pattern is the set of its alternatives; an alternative a.*b.*c is the *)
(* sequence <<"a", "b", "c">> of its literal parts.  All patterns carry    *)
(* the i flag; "." does not match a line break.                            *)
(***************************************************************************)
HARMFUL_PATTERNS == <<
  {<<"weapon">>, <<"gun">>, <<"knife", "attack">>, <<"violence">>,
   <<"harm", "person">>, <<"hurt", "someone">>},
  {<<"poison">>, <<"toxic">>, <<"dangerous", "substance">>, <<"harmful", "chemical">>},
  {<<"suicide">>, <<"self", "harm">>, <<"end", "life">>, <<"kill", "myself">>},
  {<<"dangerous", "activity">>, <<"risky", "behavior">>},
  {<<"illegal", "drug">>, <<"substance", "abuse">>, <<"drug", "recipe">>},
  {<<"steal">>, <<"theft">>, <<"robbery">>, <<"illegal", "activity">>},
  {<<"explicit">>, <<"adult", "content">>, <<"inappropriate">>},
  {<<"hate", "speech">>, <<"discrimination">>, <<"offensive">>},
  {<<"unsafe", "cooking">>, <<"dangerous", "kitchen">>, <<"harmful", "food">>},
  {<<"contaminated", "food">>, <<"food", "poisoning">>, <<"unsafe", "ingredient">>} >>

COOKING_SAFETY_PATTERNS == <<
  {<<"raw", "meat", "without", "cooking">>},
  {<<"undercooked", "chicken">>, <<"raw", "eggs", "unsafe">>},
  {<<"cross", "contamination">>, <<"unsafe", "storage">>},
  {<<"expired", "food">>, <<"moldy", "ingredient">>},
  {<<"allergen", "without", "warning">>} >>

\* The literal parts occur in s in this order from index `from` on, with no
\* line break between the start of the first and the end of the last.
RECURSIVE PartsFrom(_, _, _)
PartsFrom(s, parts, from) ==
  IF parts = <<>> THEN TRUE
  ELSE \E i \in from..(Len(s) + 1) :
         /\ OccursAt(s, Head(parts), i)
         /\ ~includes(SubSeq(s, from, i - 1), "\n")
         /\ PartsFrom(s, Tail(parts), i + Len(Head(parts)))

\* One alternative matches somewhere in s.
AltMatches(s, parts) ==
  \E i \in 1..(Len(s) + 1) :
    /\ OccursAt(s, Head(parts), i)
    /\ PartsFrom(s, Tail(parts), i + Len(Head(parts)))

\* pattern.test(input) for a case-insensitive pattern.
PatternTest(pattern, input) ==
  LET lower == toLowerCase(input) IN \E alt \in pattern : AltMatches(lower, alt)

\* A gate that consults the harmful list only.
validateInputHarmfulOnly(input) ==
  IF ~Truthy(input) \/ ~IsString(input)
  THEN [safe |-> FALSE, reason |-> "Invalid input", category |-> "invalid"]
  ELSE IF \E k \in DOMAIN HARMFUL_PATTERNS : PatternTest(HARMFUL_PATTERNS[k], input.s)
  THEN [safe |-> FALSE, reason |-> "Contains harmful content", category |-> "harmful"]
  ELSE [safe |-> TRUE]

\* lines 66-88
validateInput(input) ==
  IF ~Truthy(input) \/ ~IsString(input)
  THEN [safe |-> FALSE, reason |-> "Invalid input", category |-> "invalid"]
  ELSE IF \E k \in DOMAIN HARMFUL_PATTERNS : PatternTest(HARMFUL_PATTERNS[k], input.s)
  THEN [safe |-> FALSE, reason |-> "Contains harmful content", category |-> "harmful"]
  ELSE IF \E k \in DOMAIN COOKING_SAFETY_PATTERNS :
            PatternTest(COOKING_SAFETY_PATTERNS[k], input.s)
  THEN [safe |-> FALSE, reason |-> "Unsafe cooking practice", category |-> "unsafe_cooking"]
  ELSE [safe |-> TRUE]

\* /^[0-9a-f]{8}-[0-9a-f]{4}-[1-5][0-9a-f]{3}-[89ab][0-9a-f]{3}-[0-9a-f]{12}$/i
HexDigits == "0123456789abcdef"
IsHex(c) == \E k \in 1..Len(HexDigits) : SubSeq(HexDigits, k, k) = c
AllHex(s) == \A i \in 1..Len(s) : IsHex(SubSeq(s, i, i))
isValidUUID(uuid) ==
  LET u == toLowerCase(uuid) IN
  /\ Len(u) = 36
  /\ AllHex(SubSeq(u, 1, 8)) /\ SubSeq(u, 9, 9) = "-"
  /\ AllHex(SubSeq(u, 10, 13)) /\ SubSeq(u, 14, 14) = "-"
  /\ SubSeq(u, 15, 15) \in {"1", "2", "3", "4", "5"} /\ AllHex(SubSeq(u, 16, 18))
  /\ SubSeq(u, 19, 19) = "-"
  /\ SubSeq(u, 20, 20) \in {"8", "9", "a", "b"} /\ AllHex(SubSeq(u, 21, 23))
  /\ SubSeq(u, 24, 24) = "-"
  /\ AllHex(SubSeq(u, 25, 36))

(***************************************************************************)
(* Light jailbreak protection (lines 580-604)                              *)
(***************************************************************************)
metaphorPhrases == {"in terms of", "represents", "symbolizes", "as if", "like a"}
nonFoodTopics == {"politics", "political", "economy", "economic", "recession",
                  "depression", "government", "war", "conflict", "religion",
                  "religious", "election", "president", "congress", "senate"}

MetaphorMessage == "I appreciate the creative metaphor! However, I'm specifically designed to help with actual cooking and recipes. I'd love to help you make a real biryani, pasta, or any other dish though! What would you like to cook today?"

hasMetaphor(message) == \E phrase \in metaphorPhrases : includes(toLowerCase(message), phrase)
hasNonFoodTopic(message) == \E topic \in nonFoodTopics : includes(toLowerCase(message), topic)

\* A heuristic that lets every message through.
checkCookingIntentOff(message) == [safe |-> TRUE]

\* lines 580-604
checkCookingIntent(message) ==
  IF hasMetaphor(message) /\ hasNonFoodTopic(message)
  THEN [safe |-> FALSE, message |-> MetaphorMessage]
  ELSE [safe |-> TRUE]

(***************************************************************************)
(* Array and string helpers used by the pipeline                           *)
(***************************************************************************)
\* a.slice(-n)
sliceLast(a, n) == SubSeq(a, IF Len(a) > n THEN Len(a) - n + 1 ELSE 1, Len(a))

\* a.slice(0, n)
sliceFirst(a, n) == SubSeq(a, 1, IF Len(a) < n THEN Len(a) ELSE n)

\* a.join(sep) for an array of strings
RECURSIVE join(_, _)
join(a, sep) ==
  IF a = <<>> THEN ""
  ELSE IF Len(a) = 1 THEN a[1]
  ELSE a[1] \o sep \o join(Tail(a), sep)

\* s.replace(/p/g, r) for a literal p
RECURSIVE replaceAll(_, _, _)
replaceAll(s, p, r) ==
  IF includes(s, p)
  THEN LET i == indexOf(s, p)
       IN SubSeq(s, 1, i - 1) \o r \o replaceAll(From(s, i + Len(p)), p, r)
  ELSE s

\* v || d
OrElse(v, d) == IF Truthy(v) THEN v ELSE d

\* obj.key of a value that may not be an object: undefined unless obj is an
\* object that has the key.
JsProp(obj, key) ==
  IF obj.t = "object" /\ key \in DOMAIN obj THEN obj[key] ELSE JsUndefined

Digits == "0123456789"
IsDigit(c) == \E k \in 1..Len(Digits) : SubSeq(Digits, k, k) = c
DigitValue(c) == (CHOOSE k \in 1..Len(Digits) : SubSeq(Digits, k, k) = c) - 1

RECURSIVE LeadingNumber(_, _)
LeadingNumber(s, acc) ==
  IF s # "" /\ IsDigit(SubSeq(s, 1, 1))
  THEN LeadingNumber(From(s, 2), 10 * acc + DigitValue(SubSeq(s, 1, 1)))
  ELSE acc

\* parseInt(s) as the datastore receives it: NaN is serialised as null.
parseInt(s) ==
  LET t == trimStart(s) IN
  IF t # "" /\ IsDigit(SubSeq(t, 1, 1)) THEN JsNum(LeadingNumber(t, 0)) ELSE JsNull

(***************************************************************************)
(* The nutrition classifier (lines 1053-1108)                              *)
(***************************************************************************)
MinReplyLength == 100
RecentMessages == 4

RecipeMarkers == {"fried rice", "nutrition", "{book}"}

cookingKeywords == {"step", "cook", "fry", "boil", "bake", "saute'", "grill", "roast",
                    "ingredient", "recipe", "prepare", "heat", "simmer", "mix", "stir",
                    "first", "then", "next", "add", "pour", "chop", "dice", "slice"}

recipeNames == {"fried rice", "pasta", "curry", "soup", "stew", "salad", "sandwich",
                "stir fry", "roast", "grilled", "baked", "pizza", "burger", "taco"}

\* A check that looks at the last entry only.
hasRecentRecipeLastOnly(conversationHistory) ==
  LET recentMessages == sliceLast(conversationHistory, 1) IN
  \E i \in DOMAIN recentMessages :
    LET c == recentMessages[i].memory_content IN
    /\ Truthy(c)
    /\ \E k \in RecipeMarkers : includes(toLowerCase(c.s), k)

\* lines 1064-1078: one of the last 4 loaded history entries marks a
\* conversation about a recipe.
hasRecentRecipe(conversationHistory) ==
  LET recentMessages == sliceLast(conversationHistory, RecentMessages) IN
  \E i \in DOMAIN recentMessages :
    LET c == recentMessages[i].memory_content IN
    /\ Truthy(c)
    /\ \E k \in RecipeMarkers : includes(toLowerCase(c.s), k)

isQuestion(lowerText) ==
  includes(lowerText, "?") \/ startsWith(lowerText, "what ") \/ startsWith(lowerText, "how ")

isNewRecipeSuggestion(text, conversationHistory) ==
  IF ~Truthy(text) \/ ~IsString(text) THEN FALSE
  ELSE LET lowerText == toLowerCase(text.s) IN
       IF isQuestion(lowerText) THEN FALSE
       ELSE IF hasRecentRecipe(conversationHistory) THEN FALSE
       ELSE LET hasCookingContent == \E w \in cookingKeywords : includes(lowerText, w)
                isLongEnough == Len(text.s) > MinReplyLength
                mentionsRecipe == \E n \in recipeNames : includes(lowerText, n)
            IN (hasCookingContent /\ isLongEnough) \/ mentionsRecipe

\* A decision that never takes the message into account.
userNeverAskedForNutrition(message) == FALSE

\* lines 894-900
userExplicitlyAskedForNutrition(message) ==
  /\ message # ""
  /\ \E k \in {"nutrition", "calories", "how healthy", "nutritional"} :
       includes(toLowerCase(message), k)

(***************************************************************************)
(* The reference-image fallback heuristic (lines 858-892)                  *)
(***************************************************************************)
seePhrases == <<"show me", "show ", "picture of", "photo of", "image of",
                "what does", "how does", "how it looks", "how it looks like",
                "how it look", "can i see", "let me see", "see how">>

askedToSee(message) ==
  \E k \in DOMAIN seePhrases : includes(toLowerCase(message), seePhrases[k])

\* The loop of lines 871-875, from the k-th phrase on.
RECURSIVE stripPhrases(_, _)
stripPhrases(query, k) ==
  IF k > Len(seePhrases) THEN query
  ELSE stripPhrases(IF includes(query, seePhrases[k])
                    THEN trim(splitPop(query, seePhrases[k]))
                    ELSE query,
                    k + 1)

\* s without the prefix p, when it has it.
dropOptional(s, p) == IF startsWith(s, p) THEN From(s, Len(p) + 1) ELSE s

Pronouns == {"it", "this", "that"}

\* query.replace(/^how (it|this|that) looks?( like)?\s*/, '')
replaceHowLooks(query) ==
  IF \E w \in Pronouns : startsWith(query, "how " \o w \o " look")
  THEN LET w == CHOOSE w \in Pronouns : startsWith(query, "how " \o w \o " look")
           rest == From(query, Len("how " \o w \o " look") + 1)
       IN trimStart(dropOptional(dropOptional(rest, "s"), " like"))
  ELSE query

\* query.replace(/^(does|do) (it|this|that) look( like)?\s*/, '')
replaceDoesLook(query) ==
  LET heads == {d \o " " \o w \o " look" : d \in {"does", "do"}, w \in Pronouns} IN
  IF \E h \in heads : startsWith(query, h)
  THEN LET h == CHOOSE h \in heads : startsWith(query, h)
       IN trimStart(dropOptional(From(query, Len(h) + 1), " like"))
  ELSE query

DefaultQuery == "biryani"

\* A query taken from the message and the memory only.
fallbackQueryNoDefault(message, memory) ==
  LET stripped == stripPhrases(toLowerCase(message), 1)
      query == trim(replaceDoesLook(trim(replaceHowLooks(stripped))))
  IN IF query # "" THEN query
     ELSE IF memory = <<>> THEN ""
     ELSE trim(splitFirst(OrElse(memory[Len(memory)].memory_content, JsStr("")).s))

\* lines 870-883: the query of the synthesized action.
fallbackQuery(message, memory) ==
  LET stripped == stripPhrases(toLowerCase(message), 1)
      query == trim(replaceDoesLook(trim(replaceHowLooks(stripped))))
  IN IF query # "" THEN query
     ELSE LET lastMem == IF memory = <<>> THEN ""
                         ELSE OrElse(memory[Len(memory)].memory_content, JsStr("")).s
              fromMem == trim(splitFirst(lastMem))
          IN IF fromMem # "" THEN fromMem ELSE DefaultQuery

fallbackAction(message, memory) ==
  [action |-> "reference_images",
   query |-> fallbackQuery(message, memory),
   reason |-> "Heuristic fallback: user explicitly asked to SEE something"]

(***************************************************************************)
(* Nutrition analysis (lines 393-455)                                      *)
(***************************************************************************)
\* Valid JSON that is not a nutrition structure.
OtherJson == "{\"error\":\"unavailable\"}"

NutritionJson == "{\"calories\":250,\"protein\":9,\"carbs\":40,\"fat\":6}"

\* JSON.parse on the texts the nutrition model call returns in this model;
\* any other text is a SyntaxError.
JSONparse(s) ==
  CASE s = NutritionJson ->
         [ok |-> TRUE,
          value |-> [t |-> "object", calories |-> 250, protein |-> 9, carbs |-> 40, fat |-> 6]]
    [] s = OtherJson ->
         [ok |-> TRUE, value |-> [t |-> "object", error |-> "unavailable"]]
    [] OTHER -> [ok |-> FALSE]

\* The two replace calls and the trim of line 427.
cleanedData(nutritionData) ==
  LET a == replaceAll(replaceAll(nutritionData, "'''json\n", ""), "'''json", "")
  IN trim(replaceAll(replaceAll(a, "'''\n", ""), "'''", ""))

\* The hand-built structure of lines 434-448.
defaultNutrition(servings, nutritionData) ==
  [t |-> "object", calories |-> 300, protein |-> 15, carbs |-> 25, fat |-> 10,
   fiber |-> 5, sugar |-> 8, sodium |-> 400, servings |-> servings,
   raw_analysis |-> nutritionData]

\* What analyzeNutrition returns for the text the model gave.
parseNutrition(nutritionData, servings) ==
  LET parsed == JSONparse(cleanedData(nutritionData))
  IN IF parsed.ok THEN parsed.value ELSE defaultNutrition(servings, nutritionData)

(***************************************************************************)
(* Tool execution (lines 937-1051) and the datastore writers (297-388)     *)
(***************************************************************************)
WriterTable(name) ==
  CASE name = "add_to_shopping_list" -> "shopping_lists"
    [] name = "save_recipe" -> "saved_recipes"
    [] name = "update_preferences" -> "user_preferences"
    [] OTHER -> "none"

\* saveUserPreference, addToShoppingList and saveRecipe return false without a
\* datastore call when no client is configured (lines 298, 327, 358); there is
\* no other guard before the call.
IssuesWrite(configured, userId, name) == configured /\ WriterTable(name) # "none"

\* The entry executeFunctionCall returns for a call, `success` being what the
\* writer returned (true: the call was issued and gave no error).
executeFunctionCall(call, success) ==
  CASE call.name = "add_to_shopping_list" ->
         IF success
         THEN [action |-> "shopping_list_added", items |-> call.args.items,
               message |-> "Added " \o ToString(Len(call.args.items))
                           \o " items to your shopping list"]
         ELSE [error |-> "Failed to add to shopping list"]
    [] call.name = "save_recipe" ->
         IF success
         THEN [action |-> "recipe_saved", recipe |-> call.args,
               message |-> "Saved recipe: " \o call.args.title]
         ELSE [error |-> "Failed to save recipe"]
    [] call.name = "update_preferences" ->
         [action |-> "preference_updated", preference |-> call.args,
          message |-> "Updated your " \o call.args.preference_type \o " preference"]
    [] call.name = "suggest_substitutions" ->
         [action |-> "substitution_suggested", substitution |-> call.args,
          message |-> "Suggested alternatives for " \o call.args.original_ingredient]
    [] call.name = "guide_recipe_step" ->
         [action |-> "recipe_step_guided", step |-> call.args,
          message |-> "Step " \o ToString(call.args.step_number) \o ": "
                      \o call.args.step_description]
    [] call.name = "show_reference_images" ->
         [action |-> "reference_images",
          query |-> IF call.args.query # "" THEN call.args.query ELSE "cooking",
          reason |-> IF call.args.reason # "" THEN call.args.reason
                     ELSE "User requested visual reference",
          message |-> "Opening reference images for: "
                      \o (IF call.args.query # "" THEN call.args.query ELSE "cooking")]
    [] OTHER -> [error |-> "Unknown function"]

\* line 942: args.items throws a TypeError inside executeFunctionCall when the
\* call of add_to_shopping_list carries no args; the other handlers read args
\* inside their own try blocks.
handlerThrows(call) == call.name = "add_to_shopping_list" /\ call.args = JsUndefined

TypeErrorMessage == "Cannot read properties of undefined (reading 'items')"

\* A caught exception pushed without its message (line 850 pushes
\* { error: error.message }).
caughtEntryNoError(message) == [action |-> "none"]

\* line 850
caughtEntry(message) == [error |-> message]

\* lines 844-851: the entry the tool loop pushes for one call.
loopEntry(call, success) ==
  IF handlerThrows(call) THEN caughtEntry(TypeErrorMessage)
  ELSE executeFunctionCall(call, success)

\* The row saveRecipe inserts (lines 366-376), stamped by the datastore.
recipeRow(userId, recipeData, createdAt) ==
  [user_id |-> userId,
   title |-> recipeData.title,
   recipe_data |-> recipeData,
   difficulty |-> "medium",
   prep_time |-> IF recipeData.prep_time # "" THEN parseInt(recipeData.prep_time) ELSE JsNull,
   cook_time |-> IF recipeData.cook_time # "" THEN parseInt(recipeData.cook_time) ELSE JsNull,
   created_at |-> createdAt]

(***************************************************************************)
(* Prompt assembly (lines 652-778)                                         *)
(***************************************************************************)
RecentHistory == 6
RecipeLimit == 10
RecencyMinutes == 5
IngredientLines == 10
StepLines == 5

\* lines 657-662
conversationContext(conversationHistory) ==
  LET recentHistory == sliceLast(conversationHistory, RecentHistory) IN
  join([i \in DOMAIN recentHistory |->
          LET h == recentHistory[i] IN
          CASE h.memory_type = "user_message" -> "User: " \o Template(h.memory_content)
            [] h.memory_type = "assistant_response" ->
                 "Assistant: " \o Template(h.memory_content)
            [] OTHER -> h.memory_type \o ": " \o Template(h.memory_content)],
       "\n")

\* line 692, for the i-th ingredient
ingredientLine(ing, i) ==
  "\n" \o ToString(i) \o ". " \o Template(JsProp(ing, "amount")) \o " "
       \o Template(JsProp(ing, "name"))
       \o (IF Truthy(JsProp(ing, "notes"))
           THEN " (" \o Template(JsProp(ing, "notes")) \o ")" ELSE "")

\* line 699
stepLine(step) ==
  "\n" \o Template(JsProp(step, "step")) \o ". " \o Template(JsProp(step, "instruction"))

\* lines 682-707
recipeDetails(recipe) ==
  LET ings == sliceFirst(recipe.ingredients, IngredientLines)
      steps == sliceFirst(recipe.steps, StepLines)
  IN "\n\nRECIPE DETAILS:"
     \o "\n- Description: N/A"
     \o "\n- Servings: " \o (IF recipe.servings # 0 THEN ToString(recipe.servings) ELSE "N/A")
     \o "\n- Difficulty: N/A"
     \o (IF Len(recipe.ingredients) > 0
         THEN "\n\nINGREDIENTS (" \o ToString(Len(recipe.ingredients)) \o " items):"
              \o join([i \in DOMAIN ings |-> ingredientLine(ings[i], i)], "")
         ELSE "")
     \o (IF Len(recipe.steps) > 0
         THEN "\n\nSTEPS (" \o ToString(Len(recipe.steps)) \o " total):"
              \o join([i \in DOMAIN steps |-> stepLine(steps[i])], "")
              \o (IF Len(recipe.steps) > StepLines
                  THEN "\n... and " \o ToString(Len(recipe.steps) - StepLines)
                       \o " more steps"
                  ELSE "")
         ELSE "")
     \o "\n\nThis recipe is ready for step-by-step guidance!"

\* lines 668-710; `time` is Date.now() in minutes.
recipeGuidanceContext(savedRecipes, time) ==
  IF savedRecipes = <<>> THEN ""
  ELSE LET mostRecentRecipe == savedRecipes[1] IN
       "\n\nSAVED RECIPES AVAILABLE FOR GUIDANCE:\n"
       \o join([i \in DOMAIN savedRecipes |->
                  LET r == savedRecipes[i] IN
                  "- " \o r.title \o " (" \o r.difficulty \o ", "
                  \o Template(r.prep_time) \o "min prep, "
                  \o Template(r.cook_time) \o "min cook)"],
               "\n")
       \o (IF time - mostRecentRecipe.created_at < RecencyMinutes
           THEN "\n\nMOST RECENTLY LEARNED RECIPE: \"" \o mostRecentRecipe.title \o "\""
                \o recipeDetails(mostRecentRecipe.recipe_data)
           ELSE "")

(***************************************************************************)
(* State                                                                   *)
(***************************************************************************)
HistoryLimit == 20
NumSlots == 2

\* The user ids of the model: the default id of line 1241, a guest id and a
\* canonical (version 4) identifier.
WebUser == "web"
GuestUser == "demo-user"
UuidUser == "123e4567-e89b-42d3-a456-426614174000"
UserIds == {WebUser, GuestUser, UuidUser}

\* The requests that may be in flight at once.
Reqs == 1..NumSlots

VARIABLES
  supabase,             \* line 10-13: a datastore client was created
  apiKey,               \* line 1234: process.env.GEMINI_API_KEY is set
  conversationHistory,  \* line 19: the in-memory map, user id -> entries
  conversation_memory,  \* datastore table: the rows addToHistory inserted
  saved_recipes,        \* datastore table
  shopping_lists,       \* datastore table
  user_preferences,     \* datastore table
  now,                  \* Date.now(), in minutes
  turnLog,              \* every entry addToHistory pushed, per user id
  served,               \* number of requests received so far
  req                   \* per request: the handler's position and locals

vars == <<supabase, apiKey, conversationHistory, conversation_memory, saved_recipes,
          shopping_lists, user_preferences, now, turnLog, served, req>>

env == <<supabase, apiKey>>
tables == <<conversation_memory, saved_recipes, shopping_lists, user_preferences>>

\* A request slot before any request: every local still unassigned.
IdleReq ==
  [pc |-> "idle", method |-> "", body |-> [kind |-> "none"],
   user_id |-> "", text |-> JsUndefined,
   history |-> [live |-> FALSE, data |-> <<>>],
   preferences |-> <<>>, memory |-> <<>>, savedRecipes |-> <<>>,
   conversationContext |-> "", contextPrompt |-> [t |-> "undefined"],
   reply |-> JsUndefined, functionCalls |-> <<>>, actions |-> <<>>,
   result |-> [t |-> "undefined"],
   sent |-> <<>>,            \* the responses written to res, in order
   escaped |-> FALSE,        \* an exception left the handler
   calls |-> <<>>,           \* the external calls issued, in order
   appended |-> 0,           \* addToHistory executions
   modelResult |-> [kind |-> "none"], \* what the primary model call did
   classifierHistory |-> <<>>] \* the history the nutrition decision read

Init ==
  /\ supabase \in BOOLEAN
  /\ apiKey \in BOOLEAN
  /\ conversationHistory = [u \in UserIds |-> <<>>]
  /\ turnLog = [u \in UserIds |-> <<>>]
  /\ conversation_memory = <<>>
  /\ saved_recipes = <<>>
  /\ shopping_lists = <<>>
  /\ user_preferences = <<>>
  /\ now = 0
  /\ served = 0
  /\ req = [r \in Reqs |-> IdleReq]

(***************************************************************************)
(* Helpers of the handler                                                  *)
(***************************************************************************)
\* The lowest slot not holding a request in flight.
Free(r) == req[r].pc \in {"idle", "done"}
FreeSlot(r) == Free(r) /\ \A q \in 1..(r - 1) : ~Free(q)

\* readJson (lines 1142-1148): a body the platform parsed is returned as it
\* is; otherwise the stream is read and parsed, {} on a parse error.  A second
\* read finds the stream consumed.
readJson(body, again) ==
  IF body.kind = "object" \/ (body.kind = "stream" /\ ~again)
  THEN [user_id |-> body.user_id, text |-> body.text]
  ELSE [user_id |-> JsUndefined, text |-> JsUndefined]

\* A map that hands every user the list of the anonymous user.
inMemoryHistoryShared(userId) == [live |-> TRUE, user |-> WebUser]

\* conversationHistory.get(userId) || []: the live array of the map, or a fresh
\* empty array when the map has no entry (an entry is never empty).
inMemoryHistory(userId) ==
  IF conversationHistory[userId] = <<>>
  THEN [live |-> FALSE, data |-> <<>>]
  ELSE [live |-> TRUE, user |-> userId]

\* The array a request's conversationHistory local refers to, as it is now.
Loaded(q) == IF q.history.live THEN conversationHistory[q.history.user] ELSE q.history.data

\* The rows of a table that belong to a user, in insertion order.
RowsOf(table, userId) == SelectSeq(table, LAMBDA row : row.user_id = userId)

\* a.reverse()
Reverse(a) == [i \in DOMAIN a |-> a[Len(a) + 1 - i]]

\* The select of lines 1164-1169: oldest first, at most 20 rows.
selectHistory(userId) ==
  LET rows == sliceFirst(RowsOf(conversation_memory, userId), HistoryLimit)
  IN [i \in DOMAIN rows |->
        [memory_type |-> rows[i].memory_type, memory_content |-> rows[i].memory_content]]

\* The select of lines 212-217: newest first, at most 10 rows.
selectRecipes(userId) == sliceFirst(Reverse(RowsOf(saved_recipes, userId)), RecipeLimit)

\* lines 712-728: the parts of the prompt that vary.
buildPrompt(preferences, memory, context, savedRecipes, message, time) ==
  [userContext |->
     join([i \in DOMAIN preferences |->
             "- " \o preferences[i].preference_type \o ": "
                  \o preferences[i].preference_value], "\n")
     \o "\n"
     \o join([i \in DOMAIN memory |-> "- " \o Template(memory[i].memory_content)], "\n"),
   conversationContext |-> context,
   recipeGuidanceContext |-> recipeGuidanceContext(savedRecipes, time),
   message |-> message]

FallbackReply == "I'm having trouble processing that right now. Please try again."

\* A fallback that hands back the failure text as the reply.
agentFallbackRaw == [reply |-> JsStr("Request blocked"), actions |-> <<>>, nutrition |-> JsNull]

\* lines 927-934
agentFallback == [reply |-> JsStr(FallbackReply), actions |-> <<>>, nutrition |-> JsNull]

ModelCall(purpose) == [api |-> "model", op |-> "generateContent", target |-> purpose]
DbCall(op, table, userId) == [api |-> "datastore", op |-> op, target |-> table, user |-> userId]

Send(q, status, body) ==
  [q EXCEPT !.sent = Append(q.sent, [status |-> status, body |-> body]), !.pc = "done"]

\* A pipeline that answers without the nutrition decision and without the
\* history append.
afterToolsUnrecorded(q, hist) ==
  [q EXCEPT !.result = [reply |-> q.reply, actions |-> q.actions, nutrition |-> JsNull],
            !.pc = "respond"]

\* lines 858-925, after the tool loop: the fallback heuristic and the
\* nutrition decision, which reads the loaded history as it is then.
afterTools(q, hist) ==
  LET message == q.text.s
      actions == IF q.actions = <<>> /\ askedToSee(message)
                 THEN <<fallbackAction(message, q.memory)>>
                 ELSE q.actions
      wanted == \/ userExplicitlyAskedForNutrition(message)
                \/ isNewRecipeSuggestion(q.reply, hist)
  IN IF wanted
     THEN [q EXCEPT !.actions = actions, !.classifierHistory = hist,
                    !.pc = "analyzeNutrition"]
     ELSE [q EXCEPT !.actions = actions, !.classifierHistory = hist,
                    !.result = [reply |-> q.reply, actions |-> actions,
                                nutrition |-> JsNull],
                    !.pc = "addToHistory"]

\* lines 1296-1315
handlerFallbackReply(text) ==
  LET lower == toLowerCase(text) IN
  "I'm having trouble connecting to my cooking knowledge right now. "
  \o (IF includes(lower, "vegetarian") \/ includes(lower, "vegan")
      THEN "For vegetarian options, try making a delicious veggie stir-fry with your favorite vegetables, or a hearty bean and vegetable soup!"
      ELSE IF includes(lower, "bread")
      THEN "For bread-based recipes, you could make garlic bread, bruschetta, or a simple grilled cheese sandwich!"
      ELSE IF includes(lower, "healthy")
      THEN "For healthy cooking, focus on fresh vegetables, lean proteins, and whole grains. Try steaming or roasting your ingredients!"
      ELSE "Try asking me about specific ingredients you have, or what you'd like to cook today!")

(***************************************************************************)
(* The handler (lines 1228-1319), one action per stretch of code between   *)
(* two awaits.  An external call is one step: it is issued, logged in      *)
(* calls, and its outcome (a result, an error result, an exception) is     *)
(* an input of the step.                                                   *)
(***************************************************************************)
DbOutcomes == {"ok", "error", "throw"}

\* lines 1228-1241: a request arrives; the method and the API key are checked.
Receive(r, method, body) ==
  /\ FreeSlot(r)
  /\ served' = served + 1
  /\ LET q == [IdleReq EXCEPT !.method = method, !.body = body] IN
     req' = [req EXCEPT ![r] =
       IF method # "POST" THEN Send(q, 405, [error |-> "Method not allowed"])
       ELSE IF ~apiKey THEN Send(q, 500, [error |-> "Gemini API key not configured"])
       ELSE [q EXCEPT !.pc = "readJson"]]
  /\ UNCHANGED <<env, turnLog, conversationHistory, tables, now>>

\* lines 1241-1266: the body is read; empty text and the input gate answer at
\* once; otherwise the history is fetched, from the map synchronously or from
\* the datastore.
ReadJson(r) ==
  /\ req[r].pc = "readJson"
  /\ LET parsed == readJson(req[r].body, FALSE)
         user_id == IF parsed.user_id = JsUndefined THEN WebUser ELSE parsed.user_id.s
         text == IF parsed.text = JsUndefined THEN JsStr("") ELSE parsed.text
         q == [req[r] EXCEPT !.user_id = user_id, !.text = text]
     IN req' = [req EXCEPT ![r] =
          IF ~IsString(text)
          THEN [q EXCEPT !.pc = "catch"]    \* text.substring is not a function
          ELSE IF trim(text.s) = ""
          THEN Send(q, 200, [reply |-> JsStr("")])
          ELSE IF ~validateInput(text).safe
          THEN Send(q, 400,
                    [error |-> "Content blocked",
                     message |-> "I can only help with cooking and food-related questions. Please ask me about recipes, ingredients, or cooking techniques!",
                     reason |-> validateInput(text).reason])
          ELSE IF ~supabase \/ ~isValidUUID(user_id)
          THEN [q EXCEPT !.history = inMemoryHistory(user_id), !.pc = "processWithAgent"]
          ELSE [q EXCEPT !.pc = "getConversationHistory"]]
  /\ UNCHANGED <<env, turnLog, conversationHistory, tables, now, served>>

\* lines 1162-1180: the datastore select; on any failure the map is used.
GetConversationHistory(r, outcome) ==
  /\ req[r].pc = "getConversationHistory"
  /\ LET q == req[r] IN
     req' = [req EXCEPT ![r] =
       [q EXCEPT !.calls = Append(q.calls, DbCall("select", "conversation_memory", q.user_id)),
                 !.history = IF outcome = "ok"
                             THEN [live |-> FALSE, data |-> selectHistory(q.user_id)]
                             ELSE inMemoryHistory(q.user_id),
                 !.pc = "processWithAgent"]]
  /\ UNCHANGED <<env, turnLog, conversationHistory, tables, now, served>>

\* lines 606-665: the metaphor check; then, for a user without datastore
\* reads, the three reads return [] and the prompt is assembled.
ProcessWithAgent(r) ==
  /\ req[r].pc = "processWithAgent"
  /\ LET q == req[r] IN
     req' = [req EXCEPT ![r] =
       IF ~checkCookingIntent(q.text.s).safe
       THEN [q EXCEPT !.result = [response |-> JsStr(checkCookingIntent(q.text.s).message),
                                  reply |-> JsUndefined,
                                  actions |-> <<>>, nutrition |-> JsUndefined],
                      !.pc = "addToHistory"]
       ELSE IF ~supabase \/ ~isValidUUID(q.user_id)
       THEN [q EXCEPT !.conversationContext = conversationContext(Loaded(q)),
                      !.contextPrompt = buildPrompt(<<>>, <<>>, conversationContext(Loaded(q)),
                                                    <<>>, q.text.s, now),
                      !.pc = "generateContent"]
       ELSE [q EXCEPT !.pc = "getUserPreferences"]]
  /\ UNCHANGED <<env, turnLog, conversationHistory, tables, now, served>>

\* A read that hands on what the datastore holds whatever the outcome.
readResultUnchecked(outcome, data) == data

\* lines 143-151, 182-190, 220-228: `if (error) return []`, `return data`,
\* and `return []` in the catch block.
readResult(outcome, data) == IF outcome = "ok" THEN data ELSE <<>>

\* lines 135-152
GetUserPreferences(r, outcome) ==
  /\ req[r].pc = "getUserPreferences"
  /\ LET q == req[r] IN
     req' = [req EXCEPT ![r] =
       [q EXCEPT !.calls = Append(q.calls, DbCall("select", "user_preferences", q.user_id)),
                 !.preferences = readResult(outcome, RowsOf(user_preferences, q.user_id)),
                 !.pc = "getUserMemory"]]
  /\ UNCHANGED <<env, turnLog, conversationHistory, tables, now, served>>

\* lines 167-174: the order of the select, highest confidence_score first
\* and, among equals, latest created_at first.
selectMemory(facts) ==
  SortSeq(facts, LAMBDA a, b : \/ a.confidence_score > b.confidence_score
                               \/ /\ a.confidence_score = b.confidence_score
                                  /\ a.created_at > b.created_at)

\* lines 167-191, then 657-662.  The unexpired facts of the user are rows this
\* program does not write: `facts` is what the datastore holds of them.
GetUserMemory(r, outcome, facts) ==
  /\ req[r].pc = "getUserMemory"
  /\ LET q == req[r] IN
     req' = [req EXCEPT ![r] =
       [q EXCEPT !.calls = Append(q.calls, DbCall("select", "conversation_memory", q.user_id)),
                 !.memory = readResult(outcome, selectMemory(facts)),
                 !.conversationContext = conversationContext(Loaded(q)),
                 !.pc = "getUserRecipes"]]
  /\ UNCHANGED <<env, turnLog, conversationHistory, tables, now, served>>

\* lines 206-228, then 668-778
GetUserRecipes(r, outcome) ==
  /\ req[r].pc = "getUserRecipes"
  /\ LET q == req[r]
         savedRecipes == readResult(outcome, selectRecipes(q.user_id))
     IN req' = [req EXCEPT ![r] =
          [q EXCEPT !.calls = Append(q.calls, DbCall("select", "saved_recipes", q.user_id)),
                    !.savedRecipes = savedRecipes,
                    !.contextPrompt = buildPrompt(q.preferences, q.memory,
                                                  q.conversationContext, savedRecipes,
                                                  q.text.s, now),
                    !.pc = "generateContent"]]
  /\ UNCHANGED <<env, turnLog, conversationHistory, tables, now, served>>

\* An extraction that takes the tool calls of every place.
extractFunctionCallsEveryPlace(response) ==
  LET parts == IF response.candidates.t = "array" /\ response.candidates.items # <<>>
               THEN response.candidates.items[1].parts ELSE <<>>
      inParts == SelectSeq(parts, LAMBDA p : "functionCall" \in DOMAIN p)
  IN response.functionCalls \o [i \in DOMAIN inParts |-> inParts[i].functionCall]

\* lines 819-838: the tool calls of a response.  response.functionCalls is
\* read when it is a function (its result, [] for a falsy one) or an array;
\* when that gave nothing and candidates is an array, the functionCall parts
\* of the first candidate are taken.  An accessor that throws leaves the
\* list empty, the catch of line 836 swallowing the exception.
extractFunctionCalls(response) ==
  LET own == IF response.functionCallsType \in {"function", "array"}
             THEN response.functionCalls ELSE <<>>
      parts == IF response.candidates.t = "array" /\ response.candidates.items # <<>>
               THEN response.candidates.items[1].parts ELSE <<>>
      inParts == SelectSeq(parts, LAMBDA p : "functionCall" \in DOMAIN p)
  IN IF response.functionCallsType = "throwing function" THEN <<>>
     ELSE IF own = <<>> /\ response.candidates.t = "array"
     THEN [i \in DOMAIN inParts |-> inParts[i].functionCall]
     ELSE own

\* lines 780-856: the primary model call.  res is what the API did: it threw,
\* or it returned a response with a block reason, a text and tool calls.
GenerateContent(r, res) ==
  /\ req[r].pc = "generateContent"
  /\ LET q == [req[r] EXCEPT !.calls = Append(req[r].calls, ModelCall("primary")),
                            !.modelResult = res] IN
     req' = [req EXCEPT ![r] =
       IF res.kind = "throw" \/ res.blockReason # "" \/ res.textThrows
       THEN [q EXCEPT !.result = agentFallback, !.pc = "addToHistory"]
       ELSE IF extractFunctionCalls(res) # <<>>
       THEN [q EXCEPT !.reply = JsStr(res.text),
                      !.functionCalls = extractFunctionCalls(res),
                      !.pc = "executeFunctionCall"]
       ELSE afterTools([q EXCEPT !.reply = JsStr(res.text)], Loaded(q))]
  /\ UNCHANGED <<env, turnLog, conversationHistory, tables, now, served>>

\* lines 842-852: the next tool call is executed; a writer tool issues its
\* datastore call when a client is configured.
ExecuteFunctionCall(r, outcome) ==
  /\ req[r].pc = "executeFunctionCall"
  /\ LET q == req[r]
         call == q.functionCalls[Len(q.actions) + 1]
         issued == ~handlerThrows(call) /\ IssuesWrite(supabase, q.user_id, call.name)
         success == issued /\ outcome = "ok"
         op == IF call.name = "update_preferences" THEN "upsert" ELSE "insert"
         q1 == [q EXCEPT !.actions = Append(q.actions, loopEntry(call, success)),
                         !.calls = IF issued
                                   THEN Append(q.calls,
                                               DbCall(op, WriterTable(call.name), q.user_id))
                                   ELSE q.calls]
     IN /\ req' = [req EXCEPT ![r] =
             IF Len(q1.actions) = Len(q.functionCalls) THEN afterTools(q1, Loaded(q)) ELSE q1]
        /\ saved_recipes' =
             IF success /\ call.name = "save_recipe"
             THEN Append(saved_recipes, recipeRow(q.user_id, call.args, now))
             ELSE saved_recipes
        /\ shopping_lists' =
             IF success /\ call.name = "add_to_shopping_list"
             THEN shopping_lists \o [i \in DOMAIN call.args.items |->
                                       [user_id |-> q.user_id, item |-> call.args.items[i]]]
             ELSE shopping_lists
        /\ user_preferences' =
             IF success /\ call.name = "update_preferences"
             THEN SelectSeq(user_preferences,
                            LAMBDA row : ~(/\ row.user_id = q.user_id
                                           /\ row.preference_type = call.args.preference_type))
                  \o <<[user_id |-> q.user_id,
                        preference_type |-> call.args.preference_type,
                        preference_value |-> call.args.preference_value]>>
             ELSE user_preferences
  /\ UNCHANGED <<env, turnLog, conversationHistory, conversation_memory, now, served>>

\* A nutrition step that hands the failure on as the nutrition data.
nutritionOrFailure(out) ==
  IF out.kind = "throw" THEN [error |-> "Failed to analyze nutrition", t |-> "object"]
  ELSE parseNutrition(out.text, 1)

\* lines 904-910: nutritionData keeps its initial null when analyzeNutrition
\* throws (the rethrow of line 453 is caught at line 908).
nutritionOrNull(out) ==
  IF out.kind = "throw" THEN JsNull ELSE parseNutrition(out.text, 1)

\* lines 902-916 with analyzeNutrition (393-455): the second model call.
AnalyzeNutrition(r, out) ==
  /\ req[r].pc = "analyzeNutrition"
  /\ LET q == req[r]
         nutritionData == nutritionOrNull(out)
     IN req' = [req EXCEPT ![r] =
          [q EXCEPT !.calls = Append(q.calls, ModelCall("nutrition")),
                    !.result = [reply |-> q.reply, actions |-> q.actions,
                                nutrition |-> nutritionData],
                    !.pc = "addToHistory"]]
  /\ UNCHANGED <<env, turnLog, conversationHistory, tables, now, served>>

\* A trim that keeps the oldest entries.
trimHistoryOldest(history) == sliceFirst(history, HistoryLimit)

\* lines 1193-1195: history.splice(0, history.length - 20)
trimHistory(history) ==
  IF Len(history) > HistoryLimit
  THEN SubSeq(history, Len(history) - HistoryLimit + 1, Len(history))
  ELSE history

\* An update that replaces the list of the user by the new turn.
appendTurnOverwriting(history, entries) == entries

\* lines 1185-1195: the two entries are pushed onto the user's list, which is
\* then cut to its last 20, with no await in between.
appendTurn(history, entries) == trimHistory(history \o entries)

\* lines 1183-1223: both entries are pushed and the list is trimmed in one
\* synchronous stretch; a canonical user's turn is then inserted.
AddToHistory(r, outcome) ==
  /\ req[r].pc = "addToHistory"
  /\ LET q == req[r]
         entries == <<[memory_type |-> "user_message", memory_content |-> q.text],
                      [memory_type |-> "assistant_response",
                       memory_content |-> q.result.reply]>>
         persists == supabase /\ isValidUUID(q.user_id)
         stored(v) == IF v = JsUndefined THEN JsNull ELSE v
     IN /\ conversationHistory' =
             [conversationHistory EXCEPT ![q.user_id] = appendTurn(@, entries)]
        /\ turnLog' = [turnLog EXCEPT ![q.user_id] = @ \o entries]
        /\ conversation_memory' =
             IF persists /\ outcome = "ok"
             THEN conversation_memory
                  \o <<[user_id |-> q.user_id, memory_type |-> "user_message",
                        memory_content |-> q.text],
                       [user_id |-> q.user_id, memory_type |-> "assistant_response",
                        memory_content |-> stored(q.result.reply)]>>
             ELSE conversation_memory
        /\ req' = [req EXCEPT ![r] =
             [q EXCEPT !.appended = q.appended + 1,
                       !.calls = IF persists
                                 THEN Append(q.calls,
                                             DbCall("insert", "conversation_memory", q.user_id))
                                 ELSE q.calls,
                       !.pc = "respond"]]
  /\ UNCHANGED <<env, saved_recipes, shopping_lists, user_preferences, now, served>>

\* lines 1275-1290: result.reply.substring throws when there is no reply.
Respond(r) ==
  /\ req[r].pc = "respond"
  /\ LET q == req[r] IN
     req' = [req EXCEPT ![r] =
       IF ~IsString(q.result.reply)
       THEN [q EXCEPT !.pc = "catch"]
       ELSE IF Truthy(q.result.nutrition)
       THEN Send(q, 200, [reply |-> q.result.reply, actions |-> q.result.actions,
                          nutrition |-> q.result.nutrition])
       ELSE Send(q, 200, [reply |-> q.result.reply, actions |-> q.result.actions])]
  /\ UNCHANGED <<env, turnLog, conversationHistory, tables, now, served>>

\* lines 1292-1318: the catch block reads the body again; text.toLowerCase
\* throws out of the handler when body.text is truthy and not a string.
HandlerCatch(r) ==
  /\ req[r].pc = "catch"
  /\ LET q == req[r]
         text == OrElse(readJson(q.body, TRUE).text, JsStr(""))
     IN req' = [req EXCEPT ![r] =
          IF ~IsString(text)
          THEN [q EXCEPT !.escaped = TRUE, !.pc = "done"]
          ELSE Send(q, 200, [reply |-> JsStr(handlerFallbackReply(text.s))])]
  /\ UNCHANGED <<env, turnLog, conversationHistory, tables, now, served>>

\* Time passes.
Tick(minutes) ==
  /\ now' = now + minutes
  /\ UNCHANGED <<env, turnLog, conversationHistory, tables, served, req>>

(***************************************************************************)
(* Inputs                                                                  *)
(***************************************************************************)
Body(kind, user_id, text) == [kind |-> kind, user_id |-> user_id, text |-> text]

\* What the primary model call may do: generateContent or result.response
\* throws (lines 780-781), or a response comes back with its block reason, the
\* finish reason of its candidate, its text and its tool calls.
\* functionCallsType is what response.functionCalls is (a function, a function
\* that throws, an array, undefined), functionCalls what the function returns
\* or the array holds, candidates the candidates field.  textThrows
\* tells whether response.text() (line 815) throws on it, which is for the
\* client library to decide: a response that finished with STOP gives its
\* text, one that was cut short may or may not (the accessor of the
\* @google/generative-ai client throws for a candidate that ended for SAFETY).
\* The parts of a candidate's content: its text, then one part per tool call.
TextPart(text) == [text |-> text]
CallPart(call) == [functionCall |-> call]
Candidates(parts) == [items |-> <<[parts |-> parts]>>, t |-> "array"]
PartsOf(text, calls) == <<TextPart(text)>> \o [i \in DOMAIN calls |-> CallPart(calls[i])]

Throws == [blockReason |-> "", candidates |-> JsUndefined, finishReason |-> "",
           functionCalls |-> <<>>, functionCallsType |-> "undefined", kind |-> "throw",
           text |-> "", textThrows |-> FALSE]
Blocked(calls) == [blockReason |-> "SAFETY", candidates |-> JsUndefined, finishReason |-> "",
                   functionCalls |-> calls, functionCallsType |-> "function",
                   kind |-> "response", text |-> "", textThrows |-> TRUE]
\* A response of the client library in use: functionCalls is an accessor
\* that returns the tool calls found in the parts of the first candidate.
Finished(finishReason, textThrows, text, calls) ==
  [blockReason |-> "", candidates |-> Candidates(PartsOf(text, calls)),
   finishReason |-> finishReason, functionCalls |-> calls,
   functionCallsType |-> "function", kind |-> "response", text |-> text,
   textThrows |-> textThrows]
Answer(text, calls) == Finished("STOP", FALSE, text, calls)

\* What the nutrition model call may do.
NutritionThrows == [kind |-> "throw", text |-> ""]
NutritionText(text) == [kind |-> "text", text |-> text]
NutritionOutputs ==
  {NutritionThrows, NutritionText("'''json\n" \o NutritionJson \o "\n'''"),
   NutritionText("I cannot analyze this recipe.")}

\* Tool calls, with arguments as the tool schema of lines 460-577 allows.
PastaRecipe ==
  [title |-> "Pasta", ingredients |-> <<JsStr("200g penne"), JsStr("salt")>>,
   steps |-> <<JsStr("Boil the penne"), JsStr("Drain and serve")>>,
   prep_time |-> "10 minutes", cook_time |-> "", servings |-> 2]
SaveRecipeCall == [name |-> "save_recipe", args |-> PastaRecipe]
ShoppingCall ==
  [name |-> "add_to_shopping_list",
   args |-> [items |-> <<[name |-> "penne", quantity |-> "200g", category |-> "pantry"]>>]]
PreferenceCall ==
  [name |-> "update_preferences",
   args |-> [preference_type |-> "diet", preference_value |-> "vegan", confidence |-> 4]]
ImagesCall == [name |-> "show_reference_images", args |-> [query |-> "penne", reason |-> ""]]
UnknownCall == [name |-> "order_groceries", args |-> [items |-> <<>>]]
NoArgsCall == [name |-> "add_to_shopping_list", args |-> JsUndefined]

\* Replies of the model.
ShortReply == "Sure."
QuestionReply == "What would you like to cook?"
DishReply == "Try a quick pasta."
LongReply == "First heat the oil in a wide pan, then add the onions and stir until they turn golden brown and soft all over."

\* Request texts.
PlainText == JsStr("vegan bread ideas")
HarmfulText == JsStr("Where can I buy a WEAPON")
UnsafeCookingText == JsStr("Raw meat eaten without any cooking")
SplitLineText == JsStr("sharpen my knife\nthen attack the onions")
MetaphorText == JsStr("Curry represents Politics")
BlankText == JsStr("  \n ")
NumberText == JsNum(5)

(***************************************************************************)
(* Spec: single requests over every kind of body, each run to its end      *)
(* before the next arrives.                                                *)
(***************************************************************************)
MaxRequests == 2

GateBodies ==
  {Body("object", JsUndefined, t) :
     t \in {PlainText, HarmfulText, UnsafeCookingText, SplitLineText, MetaphorText,
            BlankText, NumberText, JsUndefined}}
  \cup {Body("object", JsStr(UuidUser), t) : t \in {PlainText, HarmfulText, MetaphorText}}
  \cup {Body("stream", JsUndefined, t) : t \in {PlainText, NumberText}}
  \cup {Body("malformed", JsUndefined, JsUndefined)}

GateResults == {Throws, Blocked(<<SaveRecipeCall>>),
                Answer(DishReply, <<SaveRecipeCall, UnknownCall>>)}

GateNutritionOutputs == NutritionOutputs \cup {NutritionText(OtherJson)}

Sequential == \A q \in Reqs : Free(q)

Next ==
  \/ \E r \in Reqs, m \in {"POST", "GET"}, b \in GateBodies :
       served < MaxRequests /\ Sequential /\ Receive(r, m, b)
  \/ \E r \in Reqs : ReadJson(r)
  \/ \E r \in Reqs, o \in DbOutcomes : GetConversationHistory(r, o)
  \/ \E r \in Reqs : ProcessWithAgent(r)
  \/ \E r \in Reqs, o \in DbOutcomes : GetUserPreferences(r, o)
  \/ \E r \in Reqs, o \in DbOutcomes : GetUserMemory(r, o, <<>>)
  \/ \E r \in Reqs, o \in DbOutcomes : GetUserRecipes(r, o)
  \/ \E r \in Reqs, res \in GateResults : GenerateContent(r, res)
  \/ \E r \in Reqs, o \in DbOutcomes : ExecuteFunctionCall(r, o)
  \/ \E r \in Reqs, out \in GateNutritionOutputs : AnalyzeNutrition(r, out)
  \/ \E r \in Reqs, o \in DbOutcomes : AddToHistory(r, o)
  \/ \E r \in Reqs : Respond(r)
  \/ \E r \in Reqs : HandlerCatch(r)

Spec == Init /\ [][Next]_vars

(***************************************************************************)
(* SpecTools: turns whose model response carries tool calls, with time     *)
(* passing between the turns.                                              *)
(***************************************************************************)
TickMinutes == 3
MaxTime == 6

GuideText == JsStr("Guide me through that recipe")

ToolBodies ==
  {Body("object", u, GuideText) : u \in {JsUndefined, JsStr(GuestUser), JsStr(UuidUser)}}

ToolResults ==
  {Answer(ShortReply, calls) :
     calls \in {<<>>, <<SaveRecipeCall>>, <<ShoppingCall>>, <<PreferenceCall>>,
                <<NoArgsCall, UnknownCall, ImagesCall>>}}

NextTools ==
  \/ \E r \in Reqs, b \in ToolBodies :
       served < MaxRequests /\ Sequential /\ Receive(r, "POST", b)
  \/ \E r \in Reqs : ReadJson(r)
  \/ \E r \in Reqs, o \in DbOutcomes : GetConversationHistory(r, o)
  \/ \E r \in Reqs : ProcessWithAgent(r)
  \/ \E r \in Reqs, o \in DbOutcomes : GetUserPreferences(r, o)
  \/ \E r \in Reqs, o \in DbOutcomes : GetUserMemory(r, o, <<>>)
  \/ \E r \in Reqs, o \in DbOutcomes : GetUserRecipes(r, o)
  \/ \E r \in Reqs, res \in ToolResults : GenerateContent(r, res)
  \/ \E r \in Reqs, o \in DbOutcomes : ExecuteFunctionCall(r, o)
  \/ \E r \in Reqs, o \in DbOutcomes : AddToHistory(r, o)
  \/ \E r \in Reqs : Respond(r)
  \/ Sequential /\ now < MaxTime /\ Tick(TickMinutes)

SpecTools == Init /\ [][NextTools]_vars

(***************************************************************************)
(* SpecImages: turns that exercise the reference-image fallback.           *)
(***************************************************************************)
ShowText == JsStr("Show me")
ShowPastaText == JsStr("show me the pasta")
LooksLikeText == JsStr("Show me how this looks like")

ImageBodies ==
  {Body("object", u, t) :
     u \in {JsUndefined, JsStr(UuidUser)},
     t \in {ShowText, ShowPastaText, LooksLikeText, PlainText}}

ImageResults ==
  {Blocked(<<>>), Answer(ShortReply, <<>>), Answer(ShortReply, <<ImagesCall>>)}

\* What the datastore may hold as unexpired memory facts of a user.
FactAt(content, confidence, created) ==
  [confidence_score |-> confidence, created_at |-> created,
   memory_content |-> content, memory_type |-> "fact"]
Fact(content) == FactAt(content, 5, 0)
MemoryFacts ==
  {<<>>, <<Fact(JsStr("Paneer tikka, mild"))>>, <<Fact(JsStr(". "))>>, <<Fact(JsNull)>>,
   <<FactAt(JsStr("Paneer tikka, mild"), 5, 1), FactAt(JsStr("Dal makhani"), 5, 2)>>}

NextImages ==
  \/ \E r \in Reqs, b \in ImageBodies :
       served < MaxRequests /\ Sequential /\ Receive(r, "POST", b)
  \/ \E r \in Reqs : ReadJson(r)
  \/ \E r \in Reqs, o \in DbOutcomes : GetConversationHistory(r, o)
  \/ \E r \in Reqs : ProcessWithAgent(r)
  \/ \E r \in Reqs, o \in DbOutcomes : GetUserPreferences(r, o)
  \/ \E r \in Reqs, o \in DbOutcomes, facts \in MemoryFacts : GetUserMemory(r, o, facts)
  \/ \E r \in Reqs, o \in DbOutcomes : GetUserRecipes(r, o)
  \/ \E r \in Reqs, res \in ImageResults : GenerateContent(r, res)
  \/ \E r \in Reqs, o \in DbOutcomes : ExecuteFunctionCall(r, o)
  \/ \E r \in Reqs, o \in DbOutcomes : AddToHistory(r, o)
  \/ \E r \in Reqs : Respond(r)

SpecImages == Init /\ [][NextImages]_vars

(***************************************************************************)
(* SpecNutrition: turns that exercise the nutrition decision.              *)
(***************************************************************************)
CaloriesText == JsStr("How many calories")
FriedRiceText == JsStr("Fried rice tonight")

NutritionBodies ==
  {Body("object", JsStr(UuidUser), t) : t \in {CaloriesText, FriedRiceText, PlainText}}

NutritionResults ==
  {Throws, Answer(DishReply, <<>>), Answer(LongReply, <<>>), Answer(QuestionReply, <<>>)}

NextNutrition ==
  \/ \E r \in Reqs, b \in NutritionBodies :
       served < MaxRequests /\ Sequential /\ Receive(r, "POST", b)
  \/ \E r \in Reqs : ReadJson(r)
  \/ \E r \in Reqs, o \in DbOutcomes : GetConversationHistory(r, o)
  \/ \E r \in Reqs : ProcessWithAgent(r)
  \/ \E r \in Reqs, o \in DbOutcomes : GetUserPreferences(r, o)
  \/ \E r \in Reqs, o \in DbOutcomes : GetUserMemory(r, o, <<>>)
  \/ \E r \in Reqs, o \in DbOutcomes : GetUserRecipes(r, o)
  \/ \E r \in Reqs, res \in NutritionResults : GenerateContent(r, res)
  \/ \E r \in Reqs, out \in NutritionOutputs : AnalyzeNutrition(r, out)
  \/ \E r \in Reqs, o \in DbOutcomes : AddToHistory(r, o)
  \/ \E r \in Reqs : Respond(r)

SpecNutrition == Init /\ [][NextNutrition]_vars

(***************************************************************************)
(* SpecHistory: turns of a process that has already served PastTurns turns *)
(* of the anonymous user, so that the next ones reach the trim.            *)
(***************************************************************************)
PastTurns == 10

\* The entries addToHistory pushed for the turns served so far.
PastEntries ==
  [i \in 1..(2 * PastTurns) |->
     IF i % 2 = 1
     THEN [memory_type |-> "user_message",
           memory_content |-> JsStr("Step " \o ToString((i + 1) \div 2) \o " please")]
     ELSE [memory_type |-> "assistant_response", memory_content |-> JsStr(ShortReply)]]

\* The rows the inserts of lines 1211-1216 left for the same turns of the
\* canonical user.
PastRows ==
  [i \in 1..(2 * PastTurns) |->
     [user_id |-> UuidUser, memory_type |-> PastEntries[i].memory_type,
      memory_content |-> PastEntries[i].memory_content]]

\* The row an earlier update_preferences call of the canonical user left.
PastPreference ==
  [user_id |-> UuidUser, preference_type |-> "diet", preference_value |-> "vegan"]

\* The anonymous user and the canonical user have each had PastTurns turns,
\* the canonical user has saved a recipe and a preference; the guest has had
\* no turn.
InitHistory ==
  /\ supabase \in BOOLEAN
  /\ apiKey = TRUE
  /\ conversationHistory =
       [u \in UserIds |-> IF u = GuestUser THEN <<>> ELSE trimHistory(PastEntries)]
  /\ turnLog = [u \in UserIds |-> IF u = GuestUser THEN <<>> ELSE PastEntries]
  /\ conversation_memory = IF supabase THEN PastRows ELSE <<>>
  /\ saved_recipes = IF supabase THEN <<recipeRow(UuidUser, PastaRecipe, 0)>> ELSE <<>>
  /\ shopping_lists = <<>>
  /\ user_preferences = IF supabase THEN <<PastPreference>> ELSE <<>>
  /\ now = 0
  /\ served = 0
  /\ req = [r \in Reqs |-> IdleReq]

HistoryBodies ==
  {Body("object", u, t) : u \in {JsUndefined, JsStr(GuestUser), JsStr(UuidUser)},
                          t \in {PlainText, MetaphorText}}

HistoryResults ==
  {Throws, Answer(ShortReply, <<>>), Finished("MAX_TOKENS", FALSE, ShortReply, <<>>)}
  \cup {Finished("SAFETY", throws, ShortReply, <<>>) : throws \in BOOLEAN}

\* The one unexpired memory fact the datastore holds of the canonical user.
HistoryFacts == <<Fact(JsStr("Paneer tikka, mild"))>>

NextHistory ==
  \/ \E r \in Reqs, b \in HistoryBodies :
       served < MaxRequests /\ Sequential /\ Receive(r, "POST", b)
  \/ \E r \in Reqs : ReadJson(r)
  \/ \E r \in Reqs, o \in DbOutcomes : GetConversationHistory(r, o)
  \/ \E r \in Reqs : ProcessWithAgent(r)
  \/ \E r \in Reqs, o \in DbOutcomes : GetUserPreferences(r, o)
  \/ \E r \in Reqs, o \in DbOutcomes : GetUserMemory(r, o, HistoryFacts)
  \/ \E r \in Reqs, o \in DbOutcomes : GetUserRecipes(r, o)
  \/ \E r \in Reqs, res \in HistoryResults : GenerateContent(r, res)
  \/ \E r \in Reqs, o \in DbOutcomes : AddToHistory(r, o)
  \/ \E r \in Reqs : Respond(r)
  \/ \E r \in Reqs : HandlerCatch(r)

SpecHistory == InitHistory /\ [][NextHistory]_vars

(***************************************************************************)
(* SpecConcurrent: requests of users without stored history that overlap:  *)
(* a request may arrive while others are in flight, and the steps of the   *)
(* requests in flight interleave.  The process has already served          *)
(* PastTurns turns of the anonymous user.                                  *)
(***************************************************************************)
ConcurrentBodies ==
  {Body("object", JsUndefined, t) : t \in {PlainText, MetaphorText}}
  \cup {Body("object", JsStr(GuestUser), PlainText)}

ConcurrentResults == {Throws, Answer(ShortReply, <<>>)}

NextConcurrent ==
  \/ \E r \in Reqs, b \in ConcurrentBodies : served < MaxRequests /\ Receive(r, "POST", b)
  \/ \E r \in Reqs : ReadJson(r)
  \/ \E r \in Reqs : ProcessWithAgent(r)
  \/ \E r \in Reqs, res \in ConcurrentResults : GenerateContent(r, res)
  \/ \E r \in Reqs, o \in {"ok"} : AddToHistory(r, o)
  \/ \E r \in Reqs : Respond(r)
  \/ \E r \in Reqs : HandlerCatch(r)

SpecConcurrent == InitHistory /\ [][NextConcurrent]_vars

(***************************************************************************)
(* SpecExtract: turns whose model response carries its tool calls in one   *)
(* or several of the places lines 819-838 look at.                         *)
(***************************************************************************)
ExtractBodies == {Body("object", u, PlainText) : u \in {JsUndefined, JsStr(UuidUser)}}

Shaped(type, calls, candidates) ==
  [Answer(ShortReply, calls) EXCEPT !.functionCallsType = type, !.candidates = candidates]

ExtractResults ==
  {Answer(ShortReply, <<SaveRecipeCall, ImagesCall>>),
   Shaped("function", <<>>, Candidates(PartsOf(ShortReply, <<PreferenceCall>>))),
   Shaped("function", <<ImagesCall>>, Candidates(PartsOf(ShortReply, <<ShoppingCall>>))),
   Shaped("array", <<SaveRecipeCall>>, Candidates(PartsOf(ShortReply, <<SaveRecipeCall>>))),
   Shaped("array", <<ShoppingCall>>, JsUndefined),
   Shaped("undefined", <<>>, Candidates(PartsOf(ShortReply, <<ShoppingCall, UnknownCall>>))),
   Shaped("undefined", <<>>, Candidates(<<TextPart(ShortReply)>>)),
   Shaped("undefined", <<>>, JsUndefined),
   Shaped("throwing function", <<>>, Candidates(PartsOf(ShortReply, <<SaveRecipeCall>>)))}

NextExtract ==
  \/ \E r \in Reqs, b \in ExtractBodies :
       served < MaxRequests /\ Sequential /\ Receive(r, "POST", b)
  \/ \E r \in Reqs : ReadJson(r)
  \/ \E r \in Reqs, o \in DbOutcomes : GetConversationHistory(r, o)
  \/ \E r \in Reqs : ProcessWithAgent(r)
  \/ \E r \in Reqs, o \in DbOutcomes : GetUserPreferences(r, o)
  \/ \E r \in Reqs, o \in DbOutcomes : GetUserMemory(r, o, <<>>)
  \/ \E r \in Reqs, o \in DbOutcomes : GetUserRecipes(r, o)
  \/ \E r \in Reqs, res \in ExtractResults : GenerateContent(r, res)
  \/ \E r \in Reqs, o \in DbOutcomes : ExecuteFunctionCall(r, o)
  \/ \E r \in Reqs, o \in DbOutcomes : AddToHistory(r, o)
  \/ \E r \in Reqs : Respond(r)

SpecExtract == Init /\ [][NextExtract]_vars

(***************************************************************************)
(* The URL learning endpoint (src/unnamed/part_002).  It shares the        *)
(* datastore, the model API and analyzeNutrition with the conversation     *)
(* endpoint.  Its locals are kept in the request record: body is req.body, *)
(* result holds recipe, nutritionData and savedRecipeId, modelResult what  *)
(* the two model calls returned.                                           *)
(***************************************************************************)
RecipeJson == "{\"title\":\"Dal\",\"servings\":2,\"ingredients\":[],\"steps\":[]}"

\* JSON.parse on the texts the recipe model call returns in this model; any
\* other text is a SyntaxError.
JSONparseRecipe(s) ==
  CASE s = RecipeJson ->
         [ok |-> TRUE,
          value |-> [t |-> "object", title |-> "Dal", servings |-> 2,
                     ingredients |-> <<>>, steps |-> <<>>]]
    [] s = "null" -> [ok |-> TRUE, value |-> JsNull]
    [] OTHER -> [ok |-> FALSE]

\* A default structure that forgets the text of the model.
defaultRecipeWithoutRaw(url, recipeData) ==
  [t |-> "object", title |-> "Extracted Recipe",
   description |-> "Recipe extracted from content", servings |-> 4,
   prep_time |-> "15 minutes", cook_time |-> "30 minutes",
   total_time |-> "45 minutes", difficulty |-> "Medium",
   ingredients |-> <<>>, steps |-> <<>>, equipment |-> <<>>, tips |-> <<>>,
   dietary_tags |-> <<>>, cuisine |-> "Unknown",
   source_url |-> IF Truthy(url) THEN url.s ELSE ""]

\* The hand-built structure of lines 97-114.
defaultRecipe(url, recipeData) ==
  [t |-> "object", title |-> "Extracted Recipe",
   description |-> "Recipe extracted from content", servings |-> 4,
   prep_time |-> "15 minutes", cook_time |-> "30 minutes",
   total_time |-> "45 minutes", difficulty |-> "Medium",
   ingredients |-> <<>>, steps |-> <<>>, equipment |-> <<>>, tips |-> <<>>,
   dietary_tags |-> <<>>, cuisine |-> "Unknown",
   source_url |-> IF Truthy(url) THEN url.s ELSE "",
   raw_analysis |-> recipeData]

\* lines 91-115
parseRecipe(recipeData, url) ==
  LET parsed == JSONparseRecipe(recipeData)
  IN IF parsed.ok THEN parsed.value ELSE defaultRecipe(url, recipeData)

\* The row of lines 138-149.
learnedRow(userId, recipe, url, createdAt) ==
  [user_id |-> userId, title |-> recipe.title, recipe_data |-> recipe,
   source_url |-> IF Truthy(url) THEN url.s ELSE "", source_type |-> "url",
   difficulty |-> IF "difficulty" \in DOMAIN recipe THEN recipe.difficulty ELSE "medium",
   prep_time |-> IF "prep_time" \in DOMAIN recipe THEN parseInt(recipe.prep_time) ELSE JsNull,
   cook_time |-> IF "cook_time" \in DOMAIN recipe THEN parseInt(recipe.cook_time) ELSE JsNull,
   servings |-> recipe.servings,
   created_at |-> createdAt]

LearnBody(user_id, url, content) ==
  [kind |-> "object", user_id |-> user_id, url |-> url, content |-> content]

LearnFailure(message) == [error |-> "Failed to analyze content", message |-> message]

\* The user id of the body is a canonical identifier.
learnUserIsValid(body) == IsString(body.user_id) /\ isValidUUID(body.user_id.s)

\* lines 165-180: the response; recipe.title throws when the model's JSON was
\* null, and the catch block answers 500.
learnRespond(q, savedRecipeId) ==
  LET recipe == q.result.recipe
      nutritionData == q.result.nutritionData
      response == [recipe |-> recipe, success |-> TRUE,
                   message |-> "Successfully extracted recipe: " \o recipe.title,
                   saved |-> savedRecipeId # JsNull, recipe_id |-> savedRecipeId]
      noted == IF learnUserIsValid(q.body) THEN response
               ELSE response @@ [note |-> "Recipe not saved (demo user)"]
  IN IF recipe = JsNull
     THEN Send(q, 500, LearnFailure("Cannot read properties of null (reading 'title')"))
     ELSE IF Truthy(nutritionData)
     THEN Send(q, 200, noted @@ [nutrition |-> nutritionData])
     ELSE Send(q, 200, noted)

\* A save step that runs the nutrition analysis once more before responding.
learnAfterNutritionRepeated(q) ==
  IF q.result.recipe # JsNull /\ Len(q.calls) < 4
  THEN [q EXCEPT !.pc = "learn.analyzeNutrition"]
  ELSE learnRespond(q, JsNull)

\* lines 134-163: after the nutrition analysis the recipe is saved for a
\* canonical user, else the response is sent.  With a null recipe the insert
\* is not reached: recipe.title throws inside the try block of the save.
learnAfterNutrition(q) ==
  IF supabase /\ learnUserIsValid(q.body) /\ q.result.recipe # JsNull
  THEN [q EXCEPT !.pc = "learn.insert"]
  ELSE learnRespond(q, JsNull)

\* lines 23-43: a request arrives; the method and the body are checked.
LearnUrl(r, method, body) ==
  /\ FreeSlot(r)
  /\ served' = served + 1
  /\ LET q == [IdleReq EXCEPT !.method = method, !.body = body] IN
     req' = [req EXCEPT ![r] =
       IF method = "OPTIONS" THEN Send(q, 200, JsUndefined)
       ELSE IF method # "POST" THEN Send(q, 405, [error |-> "Method not allowed"])
       ELSE IF body.kind # "object"
       THEN Send(q, 500, LearnFailure("Cannot destructure property 'url' of 'req.body' as it is undefined."))
       ELSE IF ~Truthy(body.url) /\ ~Truthy(body.content)
       THEN Send(q, 400, [error |-> "URL or content required"])
       ELSE [q EXCEPT !.pc = "learn.generateContent"]]
  /\ UNCHANGED <<env, turnLog, conversationHistory, tables, now>>

\* lines 87-123: the recipe model call, the parse of its text, and the text of
\* the recipe for the nutrition analysis, which throws inside its try block
\* when the recipe is null.  Without an API key the call fails.
LearnGenerateContent(r, out) ==
  /\ req[r].pc = "learn.generateContent"
  /\ apiKey \/ out.kind = "throw"
  /\ LET q == [req[r] EXCEPT !.calls = Append(req[r].calls, ModelCall("recipe")),
                            !.modelResult = [recipe |-> out, nutrition |-> [kind |-> "none"]]]
         recipe == parseRecipe(out.text, q.body.url)
         q1 == [q EXCEPT !.result = [recipe |-> recipe, nutritionData |-> JsNull]]
     IN req' = [req EXCEPT ![r] =
          IF out.kind = "throw" THEN Send(q, 500, LearnFailure("fetch failed"))
          ELSE IF recipe = JsNull THEN learnAfterNutrition(q1)
          ELSE [q1 EXCEPT !.pc = "learn.analyzeNutrition"]]
  /\ UNCHANGED <<env, turnLog, conversationHistory, tables, now, served>>

\* lines 125-130 with analyzeNutrition: the nutrition model call; its
\* exception is caught and the request goes on without nutrition data.
LearnAnalyzeNutrition(r, out) ==
  /\ req[r].pc = "learn.analyzeNutrition"
  /\ apiKey \/ out.kind = "throw"
  /\ LET q == req[r]
         recipe == q.result.recipe
         servings == IF recipe.servings # 0 THEN recipe.servings ELSE 1
         nutritionData == IF out.kind = "throw" THEN JsNull
                          ELSE parseNutrition(out.text, servings)
         q1 == [q EXCEPT !.calls = Append(q.calls, ModelCall("nutrition")),
                         !.modelResult = [recipe |-> q.modelResult.recipe, nutrition |-> out],
                         !.result = [recipe |-> recipe, nutritionData |-> nutritionData]]
     IN req' = [req EXCEPT ![r] = learnAfterNutrition(q1)]
  /\ UNCHANGED <<env, turnLog, conversationHistory, tables, now, served>>

\* lines 134-180: the insert into saved_recipes, whose failure is only
\* logged, and the response.
LearnSaveRecipe(r, outcome) ==
  /\ req[r].pc = "learn.insert"
  /\ LET q == req[r]
         userId == q.body.user_id.s
         recipe == q.result.recipe
         q1 == [q EXCEPT !.calls = Append(q.calls, DbCall("insert", "saved_recipes", userId))]
         savedRecipeId == IF outcome = "ok"
                          THEN JsStr("recipe-" \o ToString(Len(saved_recipes) + 1))
                          ELSE JsNull
     IN /\ req' = [req EXCEPT ![r] = learnRespond(q1, savedRecipeId)]
        /\ saved_recipes' =
             IF outcome = "ok"
             THEN Append(saved_recipes, learnedRow(userId, recipe, q.body.url, now))
             ELSE saved_recipes
  /\ UNCHANGED <<env, turnLog, conversationHistory, conversation_memory, shopping_lists,
                 user_preferences, now, served>>

(***************************************************************************)
(* The image analysis endpoint (src/unnamed/part_001).  The multipart form *)
(* of a request is [kind |-> "form", parsed, image, readable, prompt]:     *)
(* whether form.parse succeeded, whether it holds an image file, whether   *)
(* the temporary file can be read, and the prompt field.                   *)
(***************************************************************************)
DefaultImagePrompt == "Analyze this cooking-related image and provide helpful information."

ImageForm(parsed, image, readable, prompt) ==
  [image |-> image, kind |-> "form", parsed |-> parsed, prompt |-> prompt,
   readable |-> readable]

ImageFailure(details) == [details |-> details, error |-> "Image analysis failed"]

\* lines 25-61: a request arrives; the method is checked, the form is parsed
\* and the image file is read.
AnalyzeImage(r, method, form) ==
  /\ FreeSlot(r)
  /\ served' = served + 1
  /\ LET q == [IdleReq EXCEPT !.method = method, !.body = form] IN
     req' = [req EXCEPT ![r] =
       IF method = "OPTIONS" THEN Send(q, 200, JsUndefined)
       ELSE IF method # "POST" THEN Send(q, 405, [error |-> "Method not allowed"])
       ELSE IF ~form.parsed THEN Send(q, 500, ImageFailure("form parse failed"))
       ELSE IF ~form.image THEN Send(q, 400, [error |-> "No image file provided"])
       ELSE IF ~form.readable THEN Send(q, 500, ImageFailure("ENOENT"))
       ELSE [q EXCEPT !.text = OrElse(form.prompt, JsStr(DefaultImagePrompt)),
                      !.pc = "image.generateContent"]]
  /\ UNCHANGED <<env, turnLog, conversationHistory, tables, now>>

\* lines 63-98: the model call on the image; the temporary file is deleted
\* (a failure to delete is only logged) and the analysis is sent, or the
\* catch block answers 500.  Without an API key the call fails.
ImageGenerateContent(r, out) ==
  /\ req[r].pc = "image.generateContent"
  /\ apiKey \/ out.kind = "throw"
  /\ LET q == [req[r] EXCEPT !.calls = Append(req[r].calls, ModelCall("image")),
                            !.modelResult = out]
     IN req' = [req EXCEPT ![r] =
          IF out.kind = "throw" THEN Send(q, 500, ImageFailure("fetch failed"))
          ELSE Send(q, 200, [analysis |-> out.text, success |-> TRUE])]
  /\ UNCHANGED <<env, turnLog, conversationHistory, tables, now, served>>

(***************************************************************************)
(* SpecLearn: requests to the two secondary endpoints, URL learning and    *)
(* image analysis.                                                         *)
(***************************************************************************)
ImageForms ==
  {ImageForm(FALSE, FALSE, FALSE, JsUndefined), ImageForm(TRUE, FALSE, FALSE, JsUndefined),
   ImageForm(TRUE, TRUE, FALSE, JsUndefined), ImageForm(TRUE, TRUE, TRUE, JsUndefined),
   ImageForm(TRUE, TRUE, TRUE, JsStr("Is this steak done?"))}

ImageOutputs == {NutritionThrows, NutritionText("Medium rare; rest it for five minutes.")}

LearnBodies ==
  {[kind |-> "none"], LearnBody(JsUndefined, JsUndefined, JsUndefined)}
  \cup {LearnBody(u, JsStr("https://example.org/dal"), JsUndefined) :
          u \in {JsUndefined, JsStr(GuestUser), JsStr(UuidUser)}}
  \cup {LearnBody(JsStr(UuidUser), JsUndefined, JsStr("Boil the lentils."))}

ProseText == "Here is the recipe: boil the lentils."

RecipeOutputs ==
  {NutritionThrows, NutritionText(RecipeJson), NutritionText("null"),
   NutritionText(ProseText), NutritionText("'''json\n" \o RecipeJson \o "\n'''")}

NextLearn ==
  \/ \E r \in Reqs, m \in {"POST", "OPTIONS", "GET"}, b \in LearnBodies :
       served < MaxRequests /\ Sequential /\ LearnUrl(r, m, b)
  \/ \E r \in Reqs, out \in RecipeOutputs : LearnGenerateContent(r, out)
  \/ \E r \in Reqs, out \in NutritionOutputs : LearnAnalyzeNutrition(r, out)
  \/ \E r \in Reqs, o \in DbOutcomes : LearnSaveRecipe(r, o)
  \/ \E r \in Reqs, m \in {"POST", "OPTIONS", "GET"}, f \in ImageForms :
       served < MaxRequests /\ Sequential /\ AnalyzeImage(r, m, f)
  \/ \E r \in Reqs, out \in ImageOutputs : ImageGenerateContent(r, out)

SpecLearn == Init /\ [][NextLearn]_vars

(***************************************************************************)
(* Properties of single requests                                           *)
(***************************************************************************)
\* The text a request carries in its JSON body, undefined when there is none.
BodyText(q) == IF q.body.kind \in {"object", "stream"} THEN q.body.text ELSE JsUndefined

\* The text matches an entry of one of the two pattern lists.
Banned(text) ==
  /\ IsString(text)
  /\ \/ \E k \in DOMAIN HARMFUL_PATTERNS : PatternTest(HARMFUL_PATTERNS[k], text.s)
     \/ \E k \in DOMAIN COOKING_SAFETY_PATTERNS : PatternTest(COOKING_SAFETY_PATTERNS[k], text.s)

GateReasons == {"Contains harmful content", "Unsafe cooking practice"}

ModelCalls(q) == {i \in DOMAIN q.calls : q.calls[i].api = "model"}
DatastoreCalls(q) == {i \in DOMAIN q.calls : q.calls[i].api = "datastore"}

\* What a request whose text the gate bans must look like at every moment.
GateStopped(q) ==
  /\ ModelCalls(q) = {}
  /\ DatastoreCalls(q) = {}
  /\ q.appended = 0
  /\ q.pc = "done" =>
       /\ Len(q.sent) = 1
       /\ q.sent[1].status = 400
       /\ q.sent[1].body.reason \in GateReasons

\* C1 as stated: every POST request whose text matches a HARMFUL_PATTERNS or
\* COOKING_SAFETY_PATTERNS entry is answered 400 with a fixed reason, issues no
\* model call and no datastore call, and leaves the history map alone.
C1_GateRejectsAlways ==
  \A r \in Reqs :
    (req[r].pc # "idle" /\ req[r].method = "POST" /\ Banned(BodyText(req[r])))
      => GateStopped(req[r])

\* C1, with the API key configured: every POST request whose text matches a
\* HARMFUL_PATTERNS or COOKING_SAFETY_PATTERNS entry is answered 400 with a
\* fixed reason, issues no model call and no datastore call, and leaves the
\* history map alone.
C1_GateRejects ==
  \A r \in Reqs :
    (req[r].pc # "idle" /\ req[r].method = "POST" /\ apiKey /\ Banned(BodyText(req[r])))
      => GateStopped(req[r])

\* A request with an unsafe-cooking text was answered 400 while a datastore
\* client was configured.
C1_Witness ==
  \E r \in Reqs :
    /\ req[r].pc = "done" /\ req[r].method = "POST" /\ apiKey /\ supabase
    /\ BodyText(req[r]) = UnsafeCookingText
    /\ Banned(BodyText(req[r]))
    /\ req[r].sent = <<[status |-> 400,
                        body |-> [error |-> "Content blocked",
                                  message |-> "I can only help with cooking and food-related questions. Please ask me about recipes, ingredients, or cooking techniques!",
                                  reason |-> "Unsafe cooking practice"]]>>

\* The metaphor heuristic fires on a text: a figurative cue phrase and a
\* non-cooking topic keyword.
Figurative(text) == IsString(text) /\ hasMetaphor(text.s) /\ hasNonFoodTopic(text.s)

\* The text is absent or blank.
EmptyText(text) == text = JsUndefined \/ (IsString(text) /\ trim(text.s) = "")

\* A POST request that got past the API key check.
Admitted(q) == q.pc # "idle" /\ q.method = "POST" /\ apiKey

\* C4: when the metaphor heuristic fires, the caller receives the scripted
\* metaphor redirect as the reply of the turn, and the request makes no model
\* call.
C4_MetaphorRedirect ==
  \A r \in Reqs :
    (/\ Admitted(req[r])
     /\ Figurative(BodyText(req[r]))
     /\ ~EmptyText(BodyText(req[r]))
     /\ ~Banned(BodyText(req[r])))
      => /\ ModelCalls(req[r]) = {}
         /\ req[r].pc = "done" =>
              /\ Len(req[r].sent) = 1
              /\ req[r].sent[1].status = 200
              /\ req[r].sent[1].body.reply = JsStr(MetaphorMessage)

PrimaryCalls(q) == {i \in DOMAIN q.calls : q.calls[i] = ModelCall("primary")}
NutritionCalls(q) == {i \in DOMAIN q.calls : q.calls[i] = ModelCall("nutrition")}

\* C8: a request issues the primary model call at most once and the nutrition
\* model call at most once, so at most two model calls; a request stopped by
\* the input gate, the metaphor heuristic or empty text issues none.
C8_ModelCallBudget ==
  \A r \in Reqs :
    /\ Cardinality(PrimaryCalls(req[r])) <= 1
    /\ Cardinality(NutritionCalls(req[r])) <= 1
    /\ Cardinality(ModelCalls(req[r])) <= 2
    /\ (/\ req[r].pc # "idle"
        /\ \/ Banned(BodyText(req[r]))
           \/ Figurative(BodyText(req[r]))
           \/ EmptyText(BodyText(req[r])))
         => ModelCalls(req[r]) = {}

\* A request made the primary and the nutrition call, once each, and was
\* answered with the nutrition attached.
C8_Witness ==
  \E r \in Reqs :
    /\ req[r].pc = "done"
    /\ Cardinality(PrimaryCalls(req[r])) = 1
    /\ Cardinality(NutritionCalls(req[r])) = 1
    /\ Len(req[r].sent) = 1
    /\ req[r].sent[1].status = 200
    /\ "nutrition" \in DOMAIN req[r].sent[1].body

\* C9: every POST request with the API key configured, whatever its JSON body
\* and whatever fails, ends with exactly one response sent and no exception
\* leaving the handler.
C9_OneResponse ==
  \A r \in Reqs :
    Admitted(req[r]) =>
      /\ Len(req[r].sent) <= 1
      /\ ~req[r].escaped
      /\ req[r].pc = "done" => Len(req[r].sent) = 1

\* The primary model call of a request threw, or returned a block reason.
PrimaryFailed(q) ==
  \/ q.modelResult.kind = "throw"
  \/ q.modelResult.kind = "response" /\ q.modelResult.blockReason # ""

ToolWrites(q) ==
  {i \in DOMAIN q.calls :
     /\ q.calls[i].api = "datastore"
     /\ q.calls[i].op \in {"insert", "upsert"}
     /\ q.calls[i].target \in {"saved_recipes", "shopping_lists", "user_preferences"}}

\* C10: when the primary model call throws or its response carries a block
\* reason, the request is answered 200 with the scripted fallback reply, an
\* empty actions list and no nutrition; no further model call is made and no
\* tool-driven datastore write is performed.
C10_FallbackOnFailure ==
  \A r \in Reqs :
    PrimaryFailed(req[r]) =>
      /\ Cardinality(ModelCalls(req[r])) = 1
      /\ ToolWrites(req[r]) = {}
      /\ req[r].pc = "done" =>
           req[r].sent = <<[status |-> 200,
                            body |-> [reply |-> JsStr(FallbackReply), actions |-> <<>>]]>>

\* A canonical user's request whose model response was blocked while carrying
\* a save_recipe call was answered, with a datastore client configured.
C10_Witness ==
  \E r \in Reqs :
    /\ req[r].pc = "done" /\ supabase /\ req[r].user_id = UuidUser
    /\ req[r].modelResult = Blocked(<<SaveRecipeCall>>)
    /\ req[r].sent[1].body.reply = JsStr(FallbackReply)

(***************************************************************************)
(* Properties of tool calls                                                *)
(***************************************************************************)
DatastoreWrites(q) ==
  {i \in DOMAIN q.calls :
     q.calls[i].api = "datastore" /\ q.calls[i].op \in {"insert", "upsert"}}

\* C2: for a user id that fails isValidUUID no datastore write call (insert
\* or upsert on conversation_memory, saved_recipes, shopping_lists or
\* user_preferences) is issued, whatever tool calls the model returns.
C2_NoWriteForNonCanonicalUser ==
  \A r \in Reqs :
    (req[r].pc # "idle" /\ ~isValidUUID(req[r].user_id)) => DatastoreWrites(req[r]) = {}

\* The prompt of a turn has been assembled and the turn's model call is next.
PromptAssembled(q) == q.pc = "generateContent"

\* The rows of saved_recipes a user saved less than 5 minutes ago.
SavedWithinWindow(userId) ==
  {i \in DOMAIN saved_recipes :
     /\ saved_recipes[i].user_id = userId
     /\ now - saved_recipes[i].created_at < RecencyMinutes}

\* The text shows every ingredient and every step of a saved recipe.
ShowsRecipe(text, recipe) ==
  /\ \A k \in DOMAIN recipe.ingredients : includes(text, recipe.ingredients[k].s)
  /\ \A k \in DOMAIN recipe.steps : includes(text, recipe.steps[k].s)

\* C5: round trip: after a save_recipe call was executed and reported as
\* recipe_saved for a user, the prompt assembled on that user's next turn, if
\* within 5 minutes of the save, contains the ingredients and steps saved.
C5_SavedRecipeInNextPrompt ==
  \A r \in Reqs :
    PromptAssembled(req[r]) =>
      \A i \in SavedWithinWindow(req[r].user_id) :
        ShowsRecipe(req[r].contextPrompt.recipeGuidanceContext,
                    saved_recipes[i].recipe_data)

(***************************************************************************)
(* Properties of the two heuristics                                        *)
(***************************************************************************)
\* The message contains one of the fixed "wants to see" trigger phrases.
HasTriggerPhrase(text) ==
  /\ IsString(text)
  /\ \E k \in DOMAIN seePhrases : includes(toLowerCase(text.s), seePhrases[k])

\* The primary model call returned a response without tool calls.
ZeroToolCalls(q) == q.modelResult.kind = "response" /\ q.modelResult.functionCalls = <<>>

\* The actions list of the turn is one synthesized reference_images action
\* with a non-empty query.
OneReferenceImage(actions) ==
  /\ Len(actions) = 1
  /\ "action" \in DOMAIN actions[1]
  /\ actions[1].action = "reference_images"
  /\ actions[1].reason = "Heuristic fallback: user explicitly asked to SEE something"
  /\ actions[1].query # ""

\* C6 as stated: if the model returns zero tool calls and the user message
\* contains a trigger phrase, the actions list of the turn holds exactly one
\* entry, a synthesized reference_images action with a non-empty query.
C6_FallbackImageAlways ==
  \A r \in Reqs :
    (/\ req[r].pc = "done"
     /\ ZeroToolCalls(req[r])
     /\ HasTriggerPhrase(BodyText(req[r])))
      => /\ "actions" \in DOMAIN req[r].sent[1].body
         /\ OneReferenceImage(req[r].sent[1].body.actions)

\* C6, for a response that carries no block reason: if the model returns zero
\* tool calls and the user message contains a trigger phrase, the actions list
\* of the turn holds exactly one entry, a synthesized reference_images action
\* with a non-empty query, whatever the message and the stored memory.
C6_FallbackImage ==
  \A r \in Reqs :
    (/\ req[r].pc = "done"
     /\ ZeroToolCalls(req[r])
     /\ req[r].modelResult.blockReason = ""
     /\ HasTriggerPhrase(BodyText(req[r])))
      => /\ "actions" \in DOMAIN req[r].sent[1].body
         /\ OneReferenceImage(req[r].sent[1].body.actions)

\* A turn whose message leaves nothing after the trigger phrase and whose
\* last memory fact starts with a separator was answered with the default
\* query.
C6_Witness ==
  \E r \in Reqs :
    /\ req[r].pc = "done"
    /\ ZeroToolCalls(req[r])
    /\ req[r].modelResult.blockReason = ""
    /\ BodyText(req[r]) = LooksLikeText
    /\ req[r].memory = <<Fact(JsStr(". "))>>
    /\ OneReferenceImage(req[r].sent[1].body.actions)
    /\ req[r].sent[1].body.actions[1].query = "biryani"

\* One of the last 4 entries of the history the turn was given contains a
\* recipe keyword.
RecipeInLastFour(history) ==
  \E i \in DOMAIN history :
    /\ i > Len(history) - 4
    /\ IsString(history[i].memory_content)
    /\ \E k \in RecipeMarkers : includes(toLowerCase(history[i].memory_content.s), k)

\* The user's message explicitly asks for nutrition.
AsksForNutrition(text) ==
  /\ IsString(text)
  /\ \E k \in {"nutrition", "calories", "how healthy", "nutritional"} :
       includes(toLowerCase(text.s), k)

\* C7 as stated: whenever one of the last 4 history entries contains the
\* recipe keyword, no nutrition model call is made in that turn.
C7_NoNutritionOnContinuationAlways ==
  \A r \in Reqs :
    RecipeInLastFour(req[r].classifierHistory) => NutritionCalls(req[r]) = {}

\* C7, unless the user's message explicitly asks for nutrition: whenever one
\* of the last 4 history entries contains the recipe keyword, no nutrition
\* model call is made in that turn.
C7_NoNutritionOnContinuation ==
  \A r \in Reqs :
    (/\ RecipeInLastFour(req[r].classifierHistory)
     /\ ~AsksForNutrition(req[r].text))
      => NutritionCalls(req[r]) = {}

\* A turn after a fried rice turn got a reply that names a dish and was
\* answered without a nutrition call.
C7_Witness ==
  \E r \in Reqs :
    /\ req[r].pc = "done"
    /\ RecipeInLastFour(req[r].classifierHistory)
    /\ req[r].text = PlainText
    /\ req[r].modelResult = Answer(DishReply, <<>>)
    /\ NutritionCalls(req[r]) = {}
    /\ req[r].sent[1].body = [reply |-> JsStr(DishReply), actions |-> <<>>]

(***************************************************************************)
(* Properties of the in-memory history                                     *)
(***************************************************************************)
\* C3: after any number of turns, successful, fallback or failed, the
\* in-memory history list of every user holds at most 20 entries, and those
\* are the most recently appended ones in append order.
C3_HistoryBounded ==
  \A u \in UserIds :
    LET history == conversationHistory[u]
        log == turnLog[u]
    IN /\ Len(history) <= 20
       /\ Len(history) = IF Len(log) < 20 THEN Len(log) ELSE 20
       /\ \A i \in 1..Len(history) : history[i] = log[Len(log) - Len(history) + i]

\* More than 20 entries were appended for a user, the last of them by a turn
\* the metaphor heuristic stopped, and the user's list holds 20.
C3_Witness ==
  \E u \in UserIds :
    /\ Len(turnLog[u]) > 20
    /\ Len(conversationHistory[u]) = 20
    /\ turnLog[u][Len(turnLog[u]) - 1].memory_content = MetaphorText
    /\ turnLog[u][Len(turnLog[u])].memory_content = JsUndefined
    /\ \E r \in Reqs : req[r].pc = "done" /\ req[r].user_id = u

(***************************************************************************)
(* The shape of the responses                                              *)
(***************************************************************************)
\* The responses a request has written with status 200.
Answers200(q) == {i \in 1..Len(q.sent) : q.sent[i].status = 200}

HasReplyAndActions(body) ==
  /\ "reply" \in DOMAIN body
  /\ IsString(body.reply)
  /\ "actions" \in DOMAIN body

\* C11: every response with status 200 carries a reply string and an actions
\* array, whichever path answered: a normal turn, an empty text, the metaphor
\* redirect, the model-failure fallback or the fallback of the handler.
C11_ReplyAndActions ==
  \A r \in Reqs : \A i \in Answers200(req[r]) : HasReplyAndActions(req[r].sent[i].body)

(***************************************************************************)
(* The actions list and the tool calls                                     *)
(***************************************************************************)
DeclaredTools ==
  {"add_to_shopping_list", "save_recipe", "update_preferences",
   "suggest_substitutions", "guide_recipe_step", "show_reference_images"}

ActionName(tool) ==
  CASE tool = "add_to_shopping_list" -> "shopping_list_added"
    [] tool = "save_recipe" -> "recipe_saved"
    [] tool = "update_preferences" -> "preference_updated"
    [] tool = "suggest_substitutions" -> "substitution_suggested"
    [] tool = "guide_recipe_step" -> "recipe_step_guided"
    [] tool = "show_reference_images" -> "reference_images"

IsErrorEntry(entry) == DOMAIN entry = {"error"}

\* The entry answers the call: an error entry for an undeclared tool or a
\* handler that threw, else the action of the tool or an error entry.
EntryAnswers(entry, call) ==
  IF call.name \notin DeclaredTools \/ handlerThrows(call)
  THEN IsErrorEntry(entry)
  ELSE \/ IsErrorEntry(entry)
       \/ "action" \in DOMAIN entry /\ entry.action = ActionName(call.name)

InOrder(actions, toolCalls) ==
  \A i \in 1..Len(actions) : i <= Len(toolCalls) /\ EntryAnswers(actions[i], toolCalls[i])

\* The model returned tool calls in a response that was not blocked and
\* whose text was read.
ReturnedToolCalls(q) ==
  /\ q.modelResult.kind = "response"
  /\ q.modelResult.blockReason = ""
  /\ ~q.modelResult.textThrows
  /\ q.modelResult.functionCalls # <<>>

C13_StoreBounded ==
  \A u \in UserIds :
    isValidUUID(u) => Len(RowsOf(conversation_memory, u)) <= HistoryLimit

(***************************************************************************)
(* The history a turn loads                                                *)
(***************************************************************************)
\* The positions of a turn between the load of the history and its append.
BeforeAppend ==
  {"processWithAgent", "getUserPreferences", "getUserMemory", "getUserRecipes",
   "generateContent", "executeFunctionCall", "analyzeNutrition", "addToHistory"}

\* The last n entries of a list.
LastEntries(list, n) == IF Len(list) > n THEN SubSeq(list, Len(list) - n + 1, Len(list)) ELSE list

\* A list of whole turns: a user entry followed by an assistant entry, each.
WholeTurns(list) ==
  /\ Len(list) % 2 = 0
  /\ \A i \in 1..Len(list) :
       list[i].memory_type = IF i % 2 = 1 THEN "user_message" ELSE "assistant_response"

\* C14: for a user id that is not canonical, the history a turn loads holds,
\* in order, the user entry and the assistant entry of each of the (up to 10)
\* most recent turns of that user that were appended before, and nothing of
\* another user id.
C14_LoadedHistoryIsOwnRecentTurns ==
  \A r \in Reqs :
    LET q == req[r] IN
    (q.pc \in BeforeAppend /\ ~isValidUUID(q.user_id)) =>
      /\ Loaded(q) = LastEntries(turnLog[q.user_id], HistoryLimit)
      /\ WholeTurns(Loaded(q))
      /\ Len(Loaded(q)) <= HistoryLimit

\* The anonymous user, after more than 10 turns, loads 20 entries ending with
\* the entries of the turn before, while the guest's first turn loads none.
C14_Witness ==
  \E r \in Reqs :
    /\ req[r].pc = "generateContent"
    /\ req[r].user_id = WebUser
    /\ Len(turnLog[WebUser]) > HistoryLimit
    /\ Len(Loaded(req[r])) = HistoryLimit
    /\ Loaded(req[r])[HistoryLimit - 1].memory_content = PlainText
    /\ turnLog[GuestUser] = <<>>

(***************************************************************************)
(* Datastore reads that fail                                               *)
(***************************************************************************)
Failures == {"error", "throw"}

\* A step in which a datastore read fails puts the substitute in place of the
\* result and moves on to the next step of the turn.
FailedReadIsSubstituted ==
  \A r \in Reqs, o \in Failures :
    /\ GetConversationHistory(r, o) =>
         /\ req'[r].history = inMemoryHistory(req[r].user_id)
         /\ req'[r].pc = "processWithAgent"
    /\ GetUserPreferences(r, o) =>
         /\ req'[r].preferences = <<>>
         /\ req'[r].pc = "getUserMemory"
    /\ GetUserMemory(r, o, HistoryFacts) =>
         /\ req'[r].memory = <<>>
         /\ req'[r].pc = "getUserRecipes"
    /\ GetUserRecipes(r, o) =>
         /\ req'[r].savedRecipes = <<>>
         /\ req'[r].pc = "generateContent"

\* The turn is past its primary model call, or past the point where the
\* metaphor heuristic kept it from one.
PastModelCall(q) ==
  \/ q.pc \in {"executeFunctionCall", "analyzeNutrition", "addToHistory", "respond"}
  \/ q.appended > 0

\* The history read of the turn failed: a canonical user, the datastore
\* configured, was given the list of the process.
HistoryReadFailed(q) ==
  /\ supabase
  /\ isValidUUID(q.user_id)
  /\ q.calls # <<>>
  /\ q.history.live

\* C15 as stated: a failed datastore read is replaced by the empty list, or by
\* the history of the process, the request goes on, and the primary model
\* call is still issued exactly once in the turn.
C15_ReadFailureKeepsModelCallAlways ==
  /\ [][FailedReadIsSubstituted]_vars
  /\ [](\A r \in Reqs :
          (HistoryReadFailed(req[r]) /\ PastModelCall(req[r]))
            => Cardinality(PrimaryCalls(req[r])) = 1)

\* C15: a failed datastore read (history, preferences, memory, saved recipes)
\* is replaced by the empty list, or by the history of the process, and the
\* request goes on; unless the metaphor heuristic stops the turn, the primary
\* model call is issued exactly once, whichever reads failed.
C15_ReadFailureKeepsModelCall ==
  /\ [][FailedReadIsSubstituted]_vars
  /\ [](\A r \in Reqs :
          (PastModelCall(req[r]) /\ ~Figurative(req[r].text))
            => Cardinality(PrimaryCalls(req[r])) = 1)

\* All four reads of a turn failed while the datastore held rows of the user;
\* the turn made its primary model call and was answered.
C15_Witness ==
  \E r \in Reqs :
    LET q == req[r] IN
    /\ HistoryReadFailed(q)
    /\ Len(q.calls) >= 4
    /\ {q.calls[i] : i \in 1..4} =
         {DbCall("select", t, q.user_id) :
            t \in {"conversation_memory", "user_preferences", "saved_recipes"}}
    /\ RowsOf(user_preferences, q.user_id) # <<>>
    /\ RowsOf(saved_recipes, q.user_id) # <<>>
    /\ q.preferences = <<>> /\ q.memory = <<>> /\ q.savedRecipes = <<>>
    /\ Cardinality(PrimaryCalls(q)) = 1
    /\ q.pc = "done"
    /\ Answers200(q) # {}

(***************************************************************************)
(* Model output that is not JSON                                           *)
(***************************************************************************)
\* The text is one the JSON parser of the model rejects.
NotJson(text) == text \notin {RecipeJson, NutritionJson, "null", OtherJson}

\* What the code removes from a nutrition text before it parses it.
WithoutFences(text) ==
  IF text = "'''json\n" \o NutritionJson \o "\n'''" THEN NutritionJson ELSE text

IsDefaultRecipe(recipe, text) ==
  /\ recipe # JsNull
  /\ "raw_analysis" \in DOMAIN recipe
  /\ recipe.raw_analysis = text
  /\ recipe.title = "Extracted Recipe"
  /\ recipe.servings = 4
  /\ recipe.ingredients = <<>> /\ recipe.steps = <<>>
  /\ recipe.cuisine = "Unknown"

IsDefaultNutrition(nutrition, text) ==
  /\ nutrition # JsNull
  /\ "raw_analysis" \in DOMAIN nutrition
  /\ nutrition.raw_analysis = text
  /\ nutrition.calories = 300 /\ nutrition.protein = 15
  /\ nutrition.carbs = 25 /\ nutrition.fat = 10

\* The recipe model call of a learning request returned a text.
RecipeTextOf(q) ==
  IF "recipe" \in DOMAIN q.modelResult /\ q.modelResult.recipe.kind = "text"
  THEN q.modelResult.recipe.text ELSE RecipeJson

NutritionTextOf(q) ==
  IF "nutrition" \in DOMAIN q.modelResult /\ q.modelResult.nutrition.kind = "text"
  THEN q.modelResult.nutrition.text ELSE NutritionJson

\* C16: when the text the model returns for the recipe extraction or for the
\* nutrition analysis is not parseable JSON, the result is the hand-built
\* default structure with the text of the model in raw_analysis, and the
\* request completes with status 200 and that structure in its response.
C16_DefaultStructureOnUnparseable ==
  \A r \in Reqs :
    LET q == req[r] IN
    /\ (NotJson(RecipeTextOf(q)) /\ q.pc # "learn.generateContent") =>
         /\ IsDefaultRecipe(q.result.recipe, RecipeTextOf(q))
         /\ q.pc = "done" =>
              /\ Len(q.sent) = 1
              /\ q.sent[1].status = 200
              /\ q.sent[1].body.success
              /\ IsDefaultRecipe(q.sent[1].body.recipe, RecipeTextOf(q))
    /\ (NotJson(WithoutFences(NutritionTextOf(q))) /\ q.pc # "learn.analyzeNutrition") =>
         /\ IsDefaultNutrition(q.result.nutritionData, NutritionTextOf(q))
         /\ q.pc = "done" =>
              /\ Len(q.sent) = 1
              /\ q.sent[1].status = 200
              /\ "nutrition" \in DOMAIN q.sent[1].body
              /\ IsDefaultNutrition(q.sent[1].body.nutrition, NutritionTextOf(q))

\* A request was answered 200 with the default recipe and the default
\* nutrition, each carrying the text its model call returned.
C16_Witness ==
  \E r \in Reqs :
    LET q == req[r] IN
    /\ q.pc = "done"
    /\ RecipeTextOf(q) = ProseText
    /\ NutritionTextOf(q) = "I cannot analyze this recipe."
    /\ q.sent[1].status = 200
    /\ q.sent[1].body.recipe.raw_analysis = ProseText
    /\ q.sent[1].body.nutrition.raw_analysis = "I cannot analyze this recipe."

(***************************************************************************)
(* The order of the steps of a request                                     *)
(***************************************************************************)
\* The place of the i-th external call of a request in the pipeline: the
\* history read, the three context reads, the primary model call, the writes
\* of the tool actions, the nutrition call, the history insert.
StepOf(q, i) ==
  LET call == q.calls[i] IN
  CASE call = ModelCall("primary") -> 5
    [] call = ModelCall("nutrition") -> 7
    [] call.api = "datastore" /\ call.op = "select" ->
         (CASE call.target = "user_preferences" -> 2
            [] call.target = "saved_recipes" -> 4
            [] OTHER -> IF i = 1 THEN 1 ELSE 3)
    [] call.api = "datastore" /\ call.target = "conversation_memory" -> 8
    [] OTHER -> 6

\* The text of the request passes the gates of the handler.
PassesGates(q) ==
  /\ Admitted(q)
  /\ IsString(BodyText(q))
  /\ ~EmptyText(BodyText(q))
  /\ ~Banned(BodyText(q))

\* C17: the external calls of a request come in the order history read,
\* context reads, primary model call, writes of the tool actions, nutrition
\* call, history insert, each step at most once but for the tool writes; the
\* request is at one position of the pipeline at a time; and a request that
\* passes the gates is answered only after its history append.
C17_FixedOrder ==
  \A r \in Reqs :
    LET q == req[r] IN
    /\ \A i, j \in DOMAIN q.calls :
         i < j => \/ StepOf(q, i) < StepOf(q, j)
                  \/ StepOf(q, i) = 6 /\ StepOf(q, j) = 6
    /\ \A i \in DOMAIN q.calls :
         /\ StepOf(q, i) \in {2, 3, 4} => q.pc \notin {"readJson", "getConversationHistory"}
         /\ StepOf(q, i) = 8 => q.appended = 1
    /\ q.pc = "addToHistory" => q.appended = 0 /\ q.sent = <<>>
    /\ (PassesGates(q) /\ q.sent # <<>>) => q.appended = 1 /\ q.pc = "done"

\* A request made every kind of call, in the order of the pipeline, and was
\* answered after its history append.
C17_Witness ==
  \E r \in Reqs :
    LET q == req[r] IN
    /\ Len(q.calls) = 8
    /\ \A i \in 1..8 : StepOf(q, i) = i
    /\ q.appended = 1
    /\ q.pc = "done"
    /\ Answers200(q) # {}

(***************************************************************************)
(* The nutrition decision                                                  *)
(***************************************************************************)
\* The classifier of the reply, as the specification words it: the reply is
\* no question, no entry among the last 4 history entries marks a recipe
\* continuation, and the reply has a cooking keyword and more than 100
\* characters or names a known dish.
ClassifierAccepts(reply, history) ==
  /\ IsString(reply)
  /\ LET lower == toLowerCase(reply.s) IN
     /\ ~includes(lower, "?")
     /\ ~startsWith(lower, "what ")
     /\ ~startsWith(lower, "how ")
     /\ ~RecipeInLastFour(history)
     /\ \/ (\E w \in cookingKeywords : includes(lower, w)) /\ Len(reply.s) > 100
        \/ \E n \in recipeNames : includes(lower, n)

NutritionWanted(q) ==
  AsksForNutrition(q.text) \/ ClassifierAccepts(q.reply, q.classifierHistory)

\* The turn is past its nutrition step and not answered yet; its calls, but
\* for the history insert, are those it will have made when it is answered.
PastNutrition(q) == q.pc \in {"addToHistory", "respond", "catch"}

\* C18 as stated: a nutrition model call is issued in a turn if and only if
\* the user message contains a nutrition keyword or the classifier accepts
\* the reply.
C18_NutritionIffWantedAlways ==
  \A r \in Reqs :
    LET q == req[r] IN
    /\ q.pc = "analyzeNutrition" => NutritionWanted(q)
    /\ PastNutrition(q) => (NutritionCalls(q) # {} <=> NutritionWanted(q))

\* C18, in a turn whose primary model call returned a response without a
\* block reason whose text is read without error: a nutrition model call is issued if and only if the user
\* message contains a nutrition keyword or the classifier accepts the reply.
C18_NutritionIffWanted ==
  \A r \in Reqs :
    LET q == req[r] IN
    /\ q.pc = "analyzeNutrition" => NutritionWanted(q)
    /\ (/\ PastNutrition(q)
        /\ q.modelResult.kind = "response"
        /\ q.modelResult.blockReason = ""
        /\ ~q.modelResult.textThrows)
         => (NutritionCalls(q) # {} <=> NutritionWanted(q))

\* A message without a nutrition keyword got a long cooking reply that names
\* no dish, the classifier accepted it and the nutrition call was made.
C18_Witness ==
  \E r \in Reqs :
    LET q == req[r] IN
    /\ q.pc = "done"
    /\ q.text = PlainText
    /\ q.reply = JsStr(LongReply)
    /\ ~RecipeInLastFour(q.classifierHistory)
    /\ NutritionCalls(q) # {}
    /\ Answers200(q) # {}

(***************************************************************************)
(* The nutrition object of a response                                      *)
(***************************************************************************)
\* C19: whenever the response of a conversation turn includes a nutrition
\* object, the object has at least the keys calories, protein, carbs and fat,
\* whatever the nutrition model call returned: valid JSON of any shape, or
\* text that is not JSON.
C19_NutritionKeys ==
  \A r \in Reqs : \A i \in Answers200(req[r]) :
    LET body == req[r].sent[i].body IN
    "nutrition" \in DOMAIN body =>
      {"calories", "protein", "carbs", "fat"} \subseteq DOMAIN body.nutrition

(***************************************************************************)
(* The finish reason of the model's response                               *)
(***************************************************************************)
\* The primary model call returned a response without a block reason whose
\* candidate did not finish with STOP.
FinishedEarly(q) ==
  /\ q.modelResult.kind = "response"
  /\ q.modelResult.blockReason = ""
  /\ q.modelResult.finishReason # "STOP"

\* C20: a response whose finish reason is not STOP (MAX_TOKENS, SAFETY) and
\* that has no block reason does not fail the request: its text becomes the
\* reply of the turn, and its tool calls and the nutrition decision are
\* processed, as they are for a response that finished with STOP.
C20_FinishReasonOnlyLogged ==
  \A r \in Reqs :
    LET q == req[r] IN
    (FinishedEarly(q) /\ q.pc \in {"addToHistory", "respond", "done"}) =>
      /\ q.reply = JsStr(q.modelResult.text)
      /\ q.result.reply = JsStr(q.modelResult.text)
      /\ q.pc = "done" => /\ Answers200(q) # {}
                          /\ q.sent[1].body.reply = JsStr(q.modelResult.text)

(***************************************************************************)
(* Where the tool calls of a response are found                            *)
(***************************************************************************)
CallsInParts(response) ==
  IF response.candidates.t = "array" /\ response.candidates.items # <<>>
  THEN LET parts == SelectSeq(response.candidates.items[1].parts,
                              LAMBDA p : "functionCall" \in DOMAIN p)
       IN [i \in DOMAIN parts |-> parts[i].functionCall]
  ELSE <<>>

\* The first non-empty of the accessor's result, the array field and the
\* parts of the first candidate; nothing when the accessor throws.
FirstNonEmptyPlace(response) ==
  IF response.functionCallsType = "throwing function" THEN <<>>
  ELSE IF response.functionCallsType \in {"function", "array"} /\ response.functionCalls # <<>>
  THEN response.functionCalls
  ELSE CallsInParts(response)

ResponseRead(q) ==
  /\ q.modelResult.kind = "response"
  /\ q.modelResult.blockReason = ""
  /\ ~q.modelResult.textThrows

\* C21: the tool calls executed are those of the first non-empty of the three
\* places (accessor, array field, parts of the first candidate), each executed
\* once even when it appears in several places; an accessor that throws gives
\* zero tool calls and the request is still answered with the model's reply.
C21_ToolCallsFromFirstPlace ==
  \A r \in Reqs :
    LET q == req[r]
        expected == FirstNonEmptyPlace(q.modelResult) IN
    ResponseRead(q) =>
      /\ q.pc = "executeFunctionCall" => InOrder(q.actions, expected)
      /\ q.pc \in {"analyzeNutrition", "addToHistory", "respond"} =>
           /\ Len(q.actions) = Len(expected)
           /\ InOrder(q.actions, expected)
      /\ q.pc = "done" =>
           /\ Answers200(q) # {}
           /\ \A i \in Answers200(q) :
                /\ q.sent[i].body.reply = JsStr(q.modelResult.text)
                /\ Len(q.sent[i].body.actions) = Len(expected)
                /\ InOrder(q.sent[i].body.actions, expected)

\* A response whose accessor and parts both hold the same two tool calls
\* was answered with two entries.
C21_Witness ==
  \E r \in Reqs :
    /\ req[r].pc = "done"
    /\ req[r].modelResult = Answer(ShortReply, <<SaveRecipeCall, ImagesCall>>)
    /\ CallsInParts(req[r].modelResult) = <<SaveRecipeCall, ImagesCall>>
    /\ Answers200(req[r]) = {1}
    /\ Len(req[r].sent[1].body.actions) = 2

(***************************************************************************)
(* The recent conversation of the prompt                                   *)
(***************************************************************************)
\* The entries the datastore holds of a user, oldest first.
StoredEntries(userId) ==
  LET rows == RowsOf(conversation_memory, userId) IN
  [i \in DOMAIN rows |->
     [memory_type |-> rows[i].memory_type, memory_content |-> rows[i].memory_content]]

DatastoreBacked(userId) == supabase /\ isValidUUID(userId)

\* C22: the recent conversation of the assembled prompt is made of the six
\* latest history entries of the user, oldest first: the latest entries
\* appended in memory, or for a user with stored history the latest entries
\* the datastore holds, however many it holds.
C22_RecentConversationIsLatestThreeTurns ==
  \A r \in Reqs :
    LET q == req[r]
        inMemory == conversationContext(LastEntries(turnLog[q.user_id], RecentHistory))
        stored == conversationContext(LastEntries(StoredEntries(q.user_id), RecentHistory))
    IN q.pc = "generateContent" =>
         IF DatastoreBacked(q.user_id)
         THEN q.conversationContext \in {stored, inMemory}
         ELSE q.conversationContext = inMemory

(***************************************************************************)
(* The query the fallback heuristic takes from the memory                  *)
(***************************************************************************)
\* What is left of the message once the trigger phrases and the generic
\* tails are stripped.
Remainder(message) ==
  trim(replaceDoesLook(trim(replaceHowLooks(stripPhrases(toLowerCase(message), 1)))))

\* The fact created last among those loaded.
MostRecentFact(memory) ==
  CHOOSE f \in {memory[i] : i \in DOMAIN memory} :
    \A i \in DOMAIN memory : f.created_at >= memory[i].created_at

\* The first segment of a fact's content, trimmed.
KeywordOf(fact) == trim(splitFirst(OrElse(fact.memory_content, JsStr("")).s))

HeuristicFired(q) ==
  /\ ResponseRead(q)
  /\ q.pc \in {"analyzeNutrition", "addToHistory", "respond"}
  /\ FirstNonEmptyPlace(q.modelResult) = <<>>
  /\ askedToSee(q.text.s)

\* C23: when the fallback heuristic fires and nothing is left of the message
\* after the trigger phrase, the query of the synthesized action comes from
\* the most recently created of the loaded memory facts, and is the fixed
\* default when there is no fact (or when that fact gives no keyword).
C23_QueryFromMostRecentFact ==
  \A r \in Reqs :
    LET q == req[r] IN
    (HeuristicFired(q) /\ Remainder(q.text.s) = "") =>
      /\ Len(q.actions) = 1
      /\ q.actions[1].query =
           IF q.memory # <<>> /\ KeywordOf(MostRecentFact(q.memory)) # ""
           THEN KeywordOf(MostRecentFact(q.memory))
           ELSE DefaultQuery

(***************************************************************************)
(* A nutrition call that fails                                             *)
(***************************************************************************)
\* The step of a nutrition call that throws leaves the reply and the actions
\* as they were before the call and no nutrition data.
FailedNutritionIsDropped ==
  \A r \in Reqs :
    AnalyzeNutrition(r, NutritionThrows) =>
      /\ req'[r].pc = "addToHistory"
      /\ req'[r].result = [reply |-> req[r].reply, actions |-> req[r].actions,
                           nutrition |-> JsNull]

\* The request made a nutrition call and holds no nutrition data.
NutritionFailed(q) ==
  /\ q.pc \in {"respond", "done"}
  /\ q.result # JsUndefined
  /\ q.result.nutrition = JsNull
  /\ NutritionCalls(q) # {}

\* C24: a turn whose nutrition call fails is appended to the history and is
\* answered with status 200, the reply and the actions it had before the
\* call, and no nutrition field.
C24_NutritionFailureKeepsTurn ==
  /\ [][FailedNutritionIsDropped]_vars
  /\ [](\A r \in Reqs :
          LET q == req[r] IN
          NutritionFailed(q) =>
            /\ q.appended = 1
            /\ q.result.reply = JsStr(q.modelResult.text)
            /\ q.pc = "done" =>
                 q.sent = <<[status |-> 200,
                             body |-> [reply |-> q.reply, actions |-> q.actions]]>>)

\* A turn with tool calls whose nutrition call was made and failed has been
\* answered with its actions.
C24_Witness ==
  \E r \in Reqs :
    LET q == req[r] IN
    /\ q.pc = "done"
    /\ NutritionFailed(q)
    /\ Len(q.actions) = 2
    /\ Len(q.sent) = 1
    /\ q.sent[1].body.actions = q.actions

(***************************************************************************)
(* The external calls of the secondary endpoints                           *)
(***************************************************************************)
IsPrefix(s, t) == Len(s) <= Len(t) /\ \A i \in DOMAIN s : s[i] = t[i]

ImageRequest(q) == q.body.kind = "form"

\* The calls a URL learning request of this user may issue, in order.
LearnCalls(q) ==
  <<ModelCall("recipe"), ModelCall("nutrition")>>
  \o (IF q.body.kind = "object" /\ learnUserIsValid(q.body)
      THEN <<DbCall("insert", "saved_recipes", q.body.user_id.s)>> ELSE <<>>)

\* C25 as stated: a request to a secondary endpoint issues at most one
\* external call (model API or datastore).
C25_SingleExternalCall ==
  \A r \in Reqs : Len(req[r].calls) <= 1

\* C25, with the calls of the URL learning endpoint counted: an image
\* analysis request issues at most one external call, the model call; a URL
\* learning request issues at most three, in this order: the recipe model
\* call, the nutrition model call and the insert into saved_recipes.
C25_ExternalCallsOfSecondaryEndpoints ==
  \A r \in Reqs :
    LET q == req[r] IN
    IF ImageRequest(q)
    THEN IsPrefix(q.calls, <<ModelCall("image")>>)
    ELSE IsPrefix(q.calls, LearnCalls(q))

\* A URL learning request was answered 200, its recipe saved, after three
\* external calls.
C25_Witness ==
  \E r \in Reqs :
    LET q == req[r] IN
    /\ q.pc = "done"
    /\ ~ImageRequest(q)
    /\ Len(q.calls) = 3
    /\ q.sent[1].status = 200
    /\ q.sent[1].body.saved

(***************************************************************************)
(* Writer tools that report success                                        *)
(***************************************************************************)
WriterTools == {"add_to_shopping_list", "save_recipe", "update_preferences"}

\* The step of a writer tool call: its entry names the action exactly when
\* the datastore write was issued in the step and returned success, and is an
\* error entry otherwise.
WriterEntryTellsOutcome ==
  \A r \in Reqs, o \in DbOutcomes :
    ExecuteFunctionCall(r, o) =>
      LET call == req[r].functionCalls[Len(req[r].actions) + 1]
          entry == req'[r].actions[Len(req[r].actions) + 1]
          issued == /\ Len(req'[r].calls) = Len(req[r].calls) + 1
                    /\ req'[r].calls[Len(req'[r].calls)].target = WriterTable(call.name)
      IN call.name \in WriterTools =>
           IF issued /\ o = "ok"
           THEN "action" \in DOMAIN entry /\ entry.action = ActionName(call.name)
           ELSE IsErrorEntry(entry)

\* C26: an entry that reports shopping_list_added, recipe_saved or
\* preference_updated was produced by a step whose datastore write was issued
\* and succeeded; a failed write, or no datastore, gives an error entry.
C26_SuccessImpliesWrite == [][WriterEntryTellsOutcome]_vars

(***************************************************************************)
(* Requests that overlap                                                   *)
(***************************************************************************)
TurnEntries(q) ==
  <<[memory_type |-> "user_message", memory_content |-> q.text],
    [memory_type |-> "assistant_response", memory_content |-> q.result.reply]>>

\* The append of a turn puts its user entry and its assistant entry, in that
\* order, at the end of the user's list and keeps what the list held, but for
\* the entries the cut to 20 drops from its front.
AppendIsAtomic ==
  \A r \in Reqs, o \in DbOutcomes :
    AddToHistory(r, o) =>
      LET u == req[r].user_id
          old == conversationHistory[u]
          new == conversationHistory'[u]
      IN /\ Len(new) >= 2
         /\ SubSeq(new, Len(new) - 1, Len(new)) = TurnEntries(req[r])
         /\ SubSeq(new, 1, Len(new) - 2) = LastEntries(old, HistoryLimit - 2)
         /\ \A v \in UserIds \ {u} : conversationHistory'[v] = conversationHistory[v]

\* C27: however requests of one user id interleave, each completed turn's
\* user entry and assistant entry are adjacent and in that order in the
\* in-memory list, which so has even length and alternates user/assistant
\* from a user entry on, and a completed turn leaves the list only through the
\* cut to 20 entries.
C27_AtomicInMemoryAppend ==
  /\ [][AppendIsAtomic]_vars
  /\ [](\A u \in UserIds :
          /\ WholeTurns(conversationHistory[u])
          /\ conversationHistory[u] = LastEntries(turnLog[u], HistoryLimit))

\* Two requests of the anonymous user overlap: one has appended its turn and
\* not yet answered, the other loaded the history before that append and is
\* about to append its own; the list is full.
C27_Witness ==
  \E r1, r2 \in Reqs :
    /\ r1 # r2
    /\ req[r1].user_id = WebUser /\ req[r2].user_id = WebUser
    /\ req[r1].pc = "respond" /\ req[r1].appended = 1
    /\ req[r2].pc = "addToHistory"
    /\ Len(conversationHistory[WebUser]) = HistoryLimit
    /\ SubSeq(conversationHistory[WebUser], HistoryLimit - 1, HistoryLimit) = TurnEntries(req[r1])

\* The nutrition decision of the request has read the history.
ClassifierRan(q) ==
  /\ ResponseRead(q)
  /\ q.pc \in {"analyzeNutrition", "addToHistory", "respond", "done"}

\* C28: within one request the history the nutrition classifier is given has
\* the content the prompt was assembled from (its recent entries are those of
\* the prompt's recent conversation), also when another request of the same
\* user id completes while the model call is pending.
C28_ClassifierReadsPromptHistory ==
  \A r \in Reqs :
    LET q == req[r] IN
    ClassifierRan(q) => conversationContext(q.classifierHistory) = q.conversationContext

(***************************************************************************)
(* The reply stored and the reply sent                                     *)
(***************************************************************************)
\* C29: once a turn that wrote its history entries is answered, the
\* assistant_response entry it wrote holds the very reply string its response
\* carries.
C29_StoredReplyIsSentReply ==
  \A r \in Reqs :
    LET q == req[r]
        list == conversationHistory[q.user_id] IN
    (q.pc = "done" /\ q.appended = 1) =>
      /\ Len(q.sent) = 1
      /\ "reply" \in DOMAIN q.sent[1].body
      /\ list[Len(list)].memory_type = "assistant_response"
      /\ list[Len(list)].memory_content = q.sent[1].body.reply

(***************************************************************************)
(* A text that is empty                                                    *)
(***************************************************************************)
\* The text of the body is a string that is empty or only white space, or
\* the body carries none (the default of line 1241 is the empty string).
OnlyWhiteSpace(text) ==
  IsString(text) /\ \A i \in 1..Len(text.s) : SubSeq(text.s, i, i) \in WhiteSpace

BlankBody(q) ==
  \/ q.body.kind = "malformed"
  \/ /\ q.body.kind \in {"object", "stream"}
     /\ q.body.text = JsUndefined \/ OnlyWhiteSpace(q.body.text)

\* What a request with an empty text must look like at every moment.
AnsweredEmpty(q) ==
  /\ ModelCalls(q) = {}
  /\ DatastoreCalls(q) = {}
  /\ q.appended = 0
  /\ q.pc = "done" => q.sent = <<[status |-> 200, body |-> [reply |-> JsStr("")]]>>

\* The step that reads the body of such a request answers at once and
\* leaves the in-memory history and the tables as they are.
EmptyTextChangesNothing ==
  \A r \in Reqs :
    (ReadJson(r) /\ BlankBody(req[r])) =>
      /\ req'[r].pc = "done"
      /\ conversationHistory' = conversationHistory
      /\ tables' = tables

\* C30 as stated: a POST whose text is empty or white space only is answered
\* 200 with an empty reply and causes no model call, no datastore call and no
\* change to the in-memory history.
C30_EmptyTextAlways ==
  \A r \in Reqs :
    (req[r].pc # "idle" /\ req[r].method = "POST" /\ BlankBody(req[r]))
      => AnsweredEmpty(req[r])

\* C30, with the API key configured: a POST whose text is empty or white
\* space only is answered 200 with an empty reply and causes no model call,
\* no datastore call and no change to the in-memory history.
C30_EmptyText ==
  /\ [][EmptyTextChangesNothing]_vars
  /\ [](\A r \in Reqs :
          (req[r].pc # "idle" /\ req[r].method = "POST" /\ apiKey /\ BlankBody(req[r]))
            => AnsweredEmpty(req[r]))

\* A request whose text is white space only was answered with the empty
\* reply after an earlier turn had filled the history.
C30_Witness ==
  \E r \in Reqs :
    /\ req[r].pc = "done" /\ req[r].method = "POST"
    /\ req[r].body.kind = "object" /\ req[r].body.text = BlankText
    /\ req[r].sent = <<[status |-> 200, body |-> [reply |-> JsStr("")]]>>
    /\ conversationHistory[WebUser] # <<>>

=============================================================================
